---- MODULE Spec2Model ----
(***************************************************************************)
(* The generic /api/:table family of the API server (schema introspection, *)
(* metadata cache, dynamic SQL) over one SQLite table.                     *)
(***************************************************************************)
EXTENDS Integers, Sequences, FiniteSets, TLC

\* ------------------------------------------------------------------ bounds
MaxRowid == 2    \* largest row id the engine hands out, so also the most rows of a table
MaxReq == 1      \* requests in flight at once
MaxText == 2     \* length of a stored text and of a search term (SpecSearch)
MaxPath == 4     \* segments of a request path (SpecRouter)

VARIABLES
    tableInfo,      \* PRAGMA table_info rows of the table; <<>> while it does not exist
    rows,           \* the table's rows in rowid order: [rowid, v: column -> value]
    autoinc,        \* sqlite_sequence entry of an AUTOINCREMENT table
    metadataCache,  \* tableName -> {columns, primaryKey}
    slots,          \* per request in flight: position in getTableMetadata, meta handed over
    last,           \* the response on its way to the client, with the request it answers
    pre,            \* the rows and metadata the answering callback started from
    arrived,        \* the requests in flight, in the order the server received them
    routed,         \* the request the router dispatched last, with the handler it reached
    page,           \* the browser page: the orchestrator's module state and what it shows
    others,         \* a second table of the same database: [rows, autoinc]
    call            \* a call of a library function of the page: function, arguments, result

vars == <<tableInfo, rows, autoinc, metadataCache, slots, last, pre, arrived, routed, page, others, call>>
\* what lives outside the /api handlers
outside == <<routed, page, others, call>>

\* ------------------------------------------------------------------ values
\* SQLite storage classes used here: NULL, INTEGER, TEXT (a sequence of characters).
Null == [k |-> "null", n |-> 0, s |-> <<>>]
IntV(i) == [k |-> "int", n |-> i, s |-> <<>>]
TextV(t) == [k |-> "text", n |-> 0, s |-> t]

\* the characters texts are made of, in ASCII order
Alphabet == <<"%", "0", "1", "2", "3", "4", "5", "6", "7", "8", "9", "A", "B", "_", "a", "b">>

Digits == <<"0", "1", "2", "3", "4", "5", "6", "7", "8", "9">>

RECURSIVE IntText(_)
\* decimal rendering of a non-negative integer
IntText(i) == IF i < 10 THEN <<Digits[i + 1]>> ELSE IntText(i \div 10) \o <<Digits[(i % 10) + 1]>>

IsDigit(c) == \E d \in 1..10 : Digits[d] = c
DigitVal(c) == (CHOOSE d \in 1..10 : Digits[d] = c) - 1
IsNumeral(t) == Len(t) > 0 /\ \A j \in 1..Len(t) : IsDigit(t[j])

RECURSIVE TextInt(_)
\* value of a numeral
TextInt(t) == IF Len(t) = 0 THEN 0 ELSE 10 * TextInt(SubSeq(t, 1, Len(t) - 1)) + DigitVal(t[Len(t)])

\* Column affinity applied to a value on its way into a column or a comparison.
ApplyAffinity(type, val) ==
    IF type = "INTEGER" /\ val.k = "text" /\ IsNumeral(val.s) THEN IntV(TextInt(val.s))
    ELSE IF type = "TEXT" /\ val.k = "int" THEN TextV(IntText(val.n))
    ELSE val

\* CAST(x AS TEXT): NULL stays NULL.
CastText(val) == IF val.k = "int" THEN TextV(IntText(val.n)) ELSE val

\* Sort order of storage classes: NULL < INTEGER < TEXT.
Rank(val) == IF val.k = "null" THEN 0 ELSE IF val.k = "int" THEN 1 ELSE 2

CharPos(c) == CHOOSE p \in 1..Len(Alphabet) : Alphabet[p] = c

RECURSIVE TextLeq(_, _)
\* memcmp order of two texts, characters ordered as in Alphabet
TextLeq(a, b) ==
    IF Len(a) = 0 THEN TRUE
    ELSE IF Len(b) = 0 THEN FALSE
    ELSE IF Head(a) = Head(b) THEN TextLeq(Tail(a), Tail(b))
    ELSE CharPos(Head(a)) < CharPos(Head(b))

\* a <= b in ORDER BY
ValLeq(a, b) ==
    \/ Rank(a) < Rank(b)
    \/ Rank(a) = Rank(b) /\ a.k = "null"
    \/ Rank(a) = Rank(b) /\ a.k = "int" /\ a.n <= b.n
    \/ Rank(a) = Rank(b) /\ a.k = "text" /\ TextLeq(a.s, b.s)

\* a = b in SQL: never true when either side is NULL.
SqlEq(a, b) == a.k # "null" /\ b.k # "null" /\ a = b

\* ------------------------------------------------------------------ LIKE
Fold(c) == IF c = "A" THEN "a" ELSE IF c = "B" THEN "b" ELSE c

RECURSIVE Like(_, _)
\* SQLite's LIKE: % matches any run of characters, _ any one character, everything
\* else itself, ASCII letters without regard to case.
Like(pat, t) ==
    IF Len(pat) = 0 THEN Len(t) = 0
    ELSE IF Head(pat) = "%" THEN Like(Tail(pat), t) \/ (Len(t) > 0 /\ Like(pat, Tail(t)))
    ELSE /\ Len(t) > 0
         /\ (Head(pat) = "_" \/ Fold(Head(pat)) = Fold(Head(t)))
         /\ Like(Tail(pat), Tail(t))

\* CAST(col AS TEXT) LIKE ? ; NULL LIKE ? is NULL, which selects nothing.
CastLike(val, pat) == val.k # "null" /\ Like(pat, CastText(val).s)

\* ------------------------------------------------------------------ schema
Table == "products"
NoPk == "<null>"      \* primaryKey: null
NoMeta == [columns |-> <<>>, primaryKey |-> NoPk]

\* The table shapes an operator may have created (PRAGMA table_info: name, type, pk =
\* position of the column in the declared key, 0 when not part of it).
ProductsInfo == <<[name |-> "id", type |-> "INTEGER", pk |-> 1],
                  [name |-> "name", type |-> "TEXT", pk |-> 0],
                  [name |-> "price", type |-> "INTEGER", pk |-> 0]>>
PairInfo == <<[name |-> "kind", type |-> "INTEGER", pk |-> 2],
              [name |-> "code", type |-> "INTEGER", pk |-> 1]>>
IdOnlyInfo == <<[name |-> "id", type |-> "INTEGER", pk |-> 0],
                [name |-> "name", type |-> "TEXT", pk |-> 0]>>
NoKeyInfo == <<[name |-> "name", type |-> "TEXT", pk |-> 0],
               [name |-> "note", type |-> "TEXT", pk |-> 0]>>
Schemas == {ProductsInfo, PairInfo, IdOnlyInfo, NoKeyInfo}
ExtraColumn == [name |-> "extra", type |-> "TEXT", pk |-> 0]

ColumnNames(info) == [j \in 1..Len(info) |-> info[j].name]
ColumnSet(info) == {info[j].name : j \in 1..Len(info)}
TypeOf(info, c) == IF \E j \in 1..Len(info) : info[j].name = c
                   THEN info[CHOOSE j \in 1..Len(info) : info[j].name = c].type
                   ELSE "NONE"
KeyColumns(info) == {info[j].name : j \in {x \in 1..Len(info) : info[x].pk > 0}}
\* the column that is an alias of the rowid (a lone INTEGER PRIMARY KEY), or NoPk
RowidAlias(info) ==
    IF Cardinality(KeyColumns(info)) = 1 /\ TypeOf(info, CHOOSE c \in KeyColumns(info) : TRUE) = "INTEGER"
    THEN CHOOSE c \in KeyColumns(info) : TRUE
    ELSE NoPk

\* first element of a sequence satisfying a test, as Array.prototype.find
FirstIndex(S) == IF S = {} THEN 0 ELSE CHOOSE j \in S : \A x \in S : j <= x

\* mutant: the first flagged column in column order
PkRowInColumnOrder(info) == FirstIndex({j \in 1..Len(info) : info[j].pk > 0})

\* rows.find((r) => r.pk === 1) || rows.find((r) => r.pk > 0)
PkRow(info) ==
    IF FirstIndex({j \in 1..Len(info) : info[j].pk = 1}) # 0
    THEN FirstIndex({j \in 1..Len(info) : info[j].pk = 1})
    ELSE FirstIndex({j \in 1..Len(info) : info[j].pk > 0})

\* mutant: a table without a key is addressed by its first column
MetaOfFirstColumn(info) ==
    [columns |-> ColumnNames(info),
     primaryKey |-> IF PkRow(info) # 0 THEN info[PkRow(info)].name
                    ELSE IF "id" \in ColumnSet(info) THEN "id" ELSE info[1].name]

\* the { columns, primaryKey } getTableMetadata builds from the PRAGMA rows
MetaOf(info) ==
    [columns |-> ColumnNames(info),
     primaryKey |-> IF PkRow(info) # 0 THEN info[PkRow(info)].name
                    ELSE IF "id" \in ColumnSet(info) THEN "id" ELSE NoPk]

SeqToSet(sq) == {sq[j] : j \in 1..Len(sq)}

\* ------------------------------------------------------------------ rows
MaxOf(S) == IF S = {} THEN 0 ELSE CHOOSE x \in S : \A y \in S : y <= x
Rowids == {rows[j].rowid : j \in 1..Len(rows)}

\* UNIQUE over the declared key: rows with a NULL in the key never collide.
KeyOf(info, r) == [c \in KeyColumns(info) |-> r.v[c]]
KeyIsFull(info, r) == \A c \in KeyColumns(info) : r.v[c].k # "null"
UniqueOk(info, rs) ==
    \A a, b \in 1..Len(rs) :
        (a # b /\ KeyColumns(info) # {} /\ KeyIsFull(info, rs[a]) /\ KeyIsFull(info, rs[b]))
            => KeyOf(info, rs[a]) # KeyOf(info, rs[b])

\* WHERE "pk" = ? with the :id path segment bound as text
Matches(info, pk, r, id) == SqlEq(r.v[pk], ApplyAffinity(TypeOf(info, pk), TextV(id)))
\* mutant: the WHERE clause is lost
MatchingAnyRow(info, pk, id) == 1..Len(rows)
Matching(info, pk, id) == {j \in 1..Len(rows) : Matches(info, pk, rows[j], id)}

RECURSIVE Keep(_, _)
\* the rows of rs at the positions not in drop, in order
Keep(rs, drop) ==
    IF Len(rs) = 0 THEN <<>>
    ELSE Keep(SubSeq(rs, 1, Len(rs) - 1), drop) \o (IF Len(rs) \in drop THEN <<>> ELSE <<rs[Len(rs)]>>)

\* ------------------------------------------------------------------ requests
BodyVals == {IntV(2)}
\* body keys tried against a table: its columns and "extra", which is no column until
\* an ALTER TABLE adds it
BodyKeys == ColumnSet(tableInfo) \cup {"extra"}
Bodies == UNION {[K -> BodyVals] : K \in SUBSET BodyKeys}
IdParams == {IntText(n) : n \in 1..MaxRowid}
SearchTerms == {<<"a">>, <<"2">>, <<"_">>}
Routes == {"meta", "list", "get", "post", "put", "delete", "search"}
Slots == DOMAIN slots

NoBody == [x \in {} |-> Null]
Idle == [pc |-> "idle", meta |-> NoMeta]
HasOwn(body, c) == c \in DOMAIN body

Response(route, id, body, q, status, msg, data) ==
    [route |-> route, id |-> id, body |-> body, q |-> q,
     status |-> status, msg |-> msg, data |-> data]
NoResponse == Response("none", <<>>, NoBody, <<>>, 0, "", <<>>)
NoPre == [rows |-> <<>>, meta |-> NoMeta]
\* no response is on its way
Quiet == last = NoResponse

\* ------------------------------------------------------------------ initial states
\* Rows an operator may have loaded before the server starts.
PreVals(info, col) ==
    IF col.name = RowidAlias(info) THEN {IntV(n) : n \in 1..MaxRowid}
    ELSE IF col.name = MetaOf(info).primaryKey THEN {Null, IntV(1)}
    ELSE {Null} \cup {ApplyAffinity(col.type, b) : b \in BodyVals}
PreRowVals(info) ==
    {v \in [ColumnSet(info) -> UNION {PreVals(info, info[j]) : j \in 1..Len(info)}] :
        \A j \in 1..Len(info) : v[info[j].name] \in PreVals(info, info[j])}
RowidOk(info, rs) ==
    /\ \A j \in 1..Len(rs) : rs[j].rowid \in 1..MaxRowid
    /\ \A j \in 1..(Len(rs) - 1) : rs[j].rowid < rs[j + 1].rowid
    /\ RowidAlias(info) # NoPk => \A j \in 1..Len(rs) : rs[j].v[RowidAlias(info)] = IntV(rs[j].rowid)
    /\ RowidAlias(info) = NoPk => \A j \in 1..Len(rs) : rs[j].rowid = j
Preloads(info) ==
    {rs \in UNION {[1..n -> [rowid : 1..MaxRowid, v : PreRowVals(info)]] : n \in 0..MaxRowid} :
        RowidOk(info, rs) /\ UniqueOk(info, rs)}

NoRouted == [method |-> "", path |-> <<>>, handler |-> "", status |-> 0, body |-> ""]
\* currentTableMeta = null
\* which handler built the form the modal shows, and the key of the row it built it for
NoBuilt == [by |-> "", key |-> Null]
NullMeta == [columns |-> <<>>, primaryKey |-> NoPk, table |-> ""]
\* currentFormFields = new Map()
NoFields == [c \in {} |-> <<>>]
\* the orchestrator's module state as the script is evaluated: no browser has loaded
\* the page, nothing is rendered, no fetch is under way
NoPage ==
    [loaded |-> FALSE, currentTable |-> Table, currentRows |-> <<>>,
     editedItemPkValue |-> Null, currentTableMeta |-> NullMeta,
     currentFormFields |-> NoFields, modal |-> FALSE,
     shown |-> <<>>, shownTable |-> "", shownOp |-> "",
     pageError |-> "", modalError |-> "", fieldErrors |-> {},
     fetches |-> <<>>, cap |-> MaxReq, built |-> NoBuilt]
NoOthers == [rows |-> <<>>, autoinc |-> 0]
\* no library function has been called
NoCall == [fn |-> "", args |-> <<>>, result |-> <<>>]

InitServer(n) ==
    /\ metadataCache = [t \in {} |-> NoMeta]
    /\ slots = [i \in 1..n |-> Idle]
    /\ last = NoResponse
    /\ pre = NoPre
    /\ arrived = <<>>
    /\ routed = NoRouted
    /\ page = NoPage
    /\ others = NoOthers
    /\ call = NoCall

Init ==
    /\ InitServer(MaxReq)
    /\ \/ tableInfo = <<>> /\ rows = <<>> /\ autoinc = 0
       \/ /\ tableInfo \in Schemas
          /\ rows \in Preloads(tableInfo)
          /\ autoinc = IF RowidAlias(tableInfo) # NoPk THEN MaxOf(Rowids) ELSE 0

\* ------------------------------------------------------------------ schema changes
\* CREATE TABLE issued by the operator while the server runs
CreateTableFrom(shapes) ==
    /\ Quiet
    /\ tableInfo = <<>>
    /\ tableInfo' \in shapes
    /\ UNCHANGED <<rows, autoinc, metadataCache, slots, last, pre, arrived>>
    /\ UNCHANGED outside

CreateTable == CreateTableFrom(Schemas)

\* ALTER TABLE ... ADD COLUMN extra TEXT
AddColumn ==
    /\ Quiet
    /\ tableInfo # <<>>
    /\ "extra" \notin ColumnSet(tableInfo)
    /\ tableInfo' = Append(tableInfo, ExtraColumn)
    /\ rows' = [j \in 1..Len(rows) |->
                 [rowid |-> rows[j].rowid,
                  v |-> [c \in ColumnSet(tableInfo) \cup {"extra"} |->
                           IF c = "extra" THEN Null ELSE rows[j].v[c]]]]
    /\ UNCHANGED <<autoinc, metadataCache, slots, last, pre, arrived>>
    /\ UNCHANGED outside

\* ------------------------------------------------------------------ getTableMetadata
\* the requests in flight once request i is over
Leave(sq, i) ==
    LET Other(j) == j # i
    IN  SelectSeq(sq, Other)

\* mutant: a branch sends its response without returning, so the handler stays open
RespondAndFallThrough(i, resp) ==
    /\ slots' = slots
    /\ last' = resp
    /\ pre' = [rows |-> rows, meta |-> slots[i].meta]
    /\ arrived' = arrived

\* return res.status(...).send(...): the response goes out and the handler is over
Respond(i, resp) ==
    /\ slots' = [slots EXCEPT ![i] = Idle]
    /\ last' = resp
    /\ pre' = [rows |-> rows, meta |-> slots[i].meta]
    /\ arrived' = Leave(arrived, i)

\* the response reaches the client
Deliver ==
    /\ ~Quiet
    /\ last' = NoResponse
    /\ pre' = NoPre
    /\ UNCHANGED <<tableInfo, rows, autoinc, metadataCache, slots, arrived>>
    /\ UNCHANGED outside

\* every route's  if (err) return res.status(400).send(err.message)
MetadataError(i, msg) ==
    \E route \in Routes : Respond(i, Response(route, <<>>, NoBody, <<>>, 400, msg, <<>>))

\* mutant: the cache is not consulted
ArriveWithoutCache(i) ==
    /\ Quiet
    /\ slots[i].pc = "idle"
    /\ \A j \in 1..(i - 1) : slots[j].pc # "idle"
    /\ slots' = [slots EXCEPT ![i] = [pc |-> "catalog", meta |-> NoMeta]]
    /\ arrived' = Append(arrived, i)
    /\ UNCHANGED <<tableInfo, rows, autoinc, metadataCache, last, pre>>
    /\ UNCHANGED outside

\* a request arrives (it is given the lowest free slot): the synchronous head of
\* getTableMetadata
Arrive(i) ==
    /\ Quiet
    /\ slots[i].pc = "idle"
    /\ \A j \in 1..(i - 1) : slots[j].pc # "idle"
    /\ slots' = [slots EXCEPT ![i] =
                   IF Table \in DOMAIN metadataCache
                   THEN [pc |-> "ready", meta |-> metadataCache[Table]]
                   ELSE [pc |-> "catalog", meta |-> NoMeta]]
    /\ arrived' = Append(arrived, i)
    /\ UNCHANGED <<tableInfo, rows, autoinc, metadataCache, last, pre>>
    /\ UNCHANGED outside

\* mutant: a table that was not found is remembered as such
CatalogDoneRemembersMissing(i) ==
    /\ Quiet
    /\ slots[i].pc = "catalog"
    /\ \E err \in BOOLEAN :
         IF err THEN MetadataError(i, "engine") /\ UNCHANGED metadataCache
         ELSE IF tableInfo = <<>>
         THEN MetadataError(i, "Table not found") /\ metadataCache' = [t \in {Table} |-> NoMeta]
         ELSE slots' = [slots EXCEPT ![i].pc = "pragma"] /\ UNCHANGED <<last, pre, arrived, metadataCache>>
    /\ UNCHANGED <<tableInfo, rows, autoinc>>
    /\ UNCHANGED outside

\* callback of SELECT name FROM sqlite_master ...
CatalogDone(i) ==
    /\ Quiet
    /\ slots[i].pc = "catalog"
    /\ \E err \in BOOLEAN :
         IF err THEN MetadataError(i, "engine")
         ELSE IF tableInfo = <<>> THEN MetadataError(i, "Table not found")
         ELSE slots' = [slots EXCEPT ![i].pc = "pragma"] /\ UNCHANGED <<last, pre, arrived>>
    /\ UNCHANGED <<tableInfo, rows, autoinc, metadataCache>>
    /\ UNCHANGED outside

\* mutant: a later introspection adds its columns to the entry already cached
PragmaDoneAppends(i) ==
    /\ Quiet
    /\ slots[i].pc = "pragma"
    /\ Len(tableInfo) > 0
    /\ LET meta == IF Table \in DOMAIN metadataCache
                   THEN [columns |-> metadataCache[Table].columns \o ColumnNames(tableInfo),
                         primaryKey |-> MetaOf(tableInfo).primaryKey]
                   ELSE MetaOf(tableInfo)
       IN  /\ metadataCache' = [t \in DOMAIN metadataCache \cup {Table} |-> meta]
           /\ slots' = [slots EXCEPT ![i] = [pc |-> "ready", meta |-> meta]]
    /\ UNCHANGED <<tableInfo, rows, autoinc, last, pre, arrived>>
    /\ UNCHANGED outside

\* callback of PRAGMA table_info(...)
PragmaDone(i) ==
    /\ Quiet
    /\ slots[i].pc = "pragma"
    /\ \E pragmaErr \in BOOLEAN :
         IF pragmaErr THEN MetadataError(i, "engine") /\ UNCHANGED metadataCache
         ELSE IF Len(tableInfo) = 0 THEN MetadataError(i, "No columns found") /\ UNCHANGED metadataCache
         ELSE /\ metadataCache' = [t \in DOMAIN metadataCache \cup {Table} |-> MetaOf(tableInfo)]
              /\ slots' = [slots EXCEPT ![i] = [pc |-> "ready", meta |-> MetaOf(tableInfo)]]
              /\ UNCHANGED <<last, pre, arrived>>
    /\ UNCHANGED <<tableInfo, rows, autoinc>>
    /\ UNCHANGED outside

\* ------------------------------------------------------------------ route callbacks
Ready(i) == Quiet /\ slots[i].pc = "ready"
Generic500(i, route, id, body, q) ==
    Respond(i, Response(route, id, body, q, 500, "Internal server error", <<>>))

\* mutant: the primary key is not filtered out
WritableKeysWithPk(m, body) ==
    LET Given(c) == HasOwn(body, c)
    IN  SelectSeq(m.columns, Given)

\* meta.columns.filter((c) => c !== meta.primaryKey).filter((c) => hasOwnProperty(body, c))
WritableKeys(m, body) ==
    LET NotPk(c) == c # m.primaryKey
        Given(c) == HasOwn(body, c)
    IN  SelectSeq(SelectSeq(m.columns, NotPk), Given)

\* mutant: the response carries this.changes where this.lastID belongs
EchoChanges(keys, body, pk, pkValue) ==
    [c \in SeqToSet(keys) \cup (IF pk = NoPk THEN {} ELSE {pk}) |->
        IF c = pk THEN IntV(1) ELSE body[c]]

\* Object.fromEntries(keys.map((k, i) => [k, values[i]])) with response[pk] = pkValue
Echo(keys, body, pk, pkValue) ==
    [c \in SeqToSet(keys) \cup (IF pk = NoPk THEN {} ELSE {pk}) |->
        IF c = pk THEN pkValue ELSE body[c]]

\* the row id the engine gives the next inserted row
NextRowid ==
    IF RowidAlias(tableInfo) # NoPk THEN MaxOf(Rowids \cup {autoinc}) + 1 ELSE MaxOf(Rowids) + 1

\* INSERT INTO t (keys) VALUES (...)
InsertedRow(keys, body) ==
    [rowid |-> NextRowid,
     v |-> [c \in ColumnSet(tableInfo) |->
              IF c \in SeqToSet(keys) THEN ApplyAffinity(TypeOf(tableInfo, c), body[c])
              ELSE IF c = RowidAlias(tableInfo) THEN IntV(NextRowid)
              ELSE Null]]

\* mutant: a column another update has already filled is left alone
UpdatedRowsFirstWriterWins(keys, body, pk, id) ==
    [j \in 1..Len(rows) |->
        IF Matches(tableInfo, pk, rows[j], id)
        THEN [rowid |-> rows[j].rowid,
              v |-> [c \in ColumnSet(tableInfo) |->
                       IF c \in SeqToSet(keys) /\ rows[j].v[c] = Null
                       THEN ApplyAffinity(TypeOf(tableInfo, c), body[c])
                       ELSE rows[j].v[c]]]
        ELSE rows[j]]

\* mutant: columns absent from the body are set to NULL
UpdatedRowsAllColumns(keys, body, pk, id) ==
    [j \in 1..Len(rows) |->
        IF Matches(tableInfo, pk, rows[j], id)
        THEN [rowid |-> rows[j].rowid,
              v |-> [c \in ColumnSet(tableInfo) |->
                       IF c \in SeqToSet(keys) THEN ApplyAffinity(TypeOf(tableInfo, c), body[c])
                       ELSE IF c = pk THEN rows[j].v[c]
                       ELSE Null]]
        ELSE rows[j]]

\* UPDATE t SET keys = ... WHERE pk = id
UpdatedRows(keys, body, pk, id) ==
    [j \in 1..Len(rows) |->
        IF Matches(tableInfo, pk, rows[j], id)
        THEN [rowid |-> rows[j].rowid,
              v |-> [c \in ColumnSet(tableInfo) |->
                       IF c \in SeqToSet(keys) THEN ApplyAffinity(TypeOf(tableInfo, c), body[c])
                       ELSE rows[j].v[c]]]
        ELSE rows[j]]

\* mutant: only the first matching row is deleted
RemainingRowsFirstOnly(pk, id) == Keep(rows, {FirstIndex(Matching(tableInfo, pk, id))})

\* DELETE FROM t WHERE pk = id
RemainingRows(pk, id) == Keep(rows, Matching(tableInfo, pk, id))

\* mutant: ORDER BY pk ASC
AscOrders(pk) ==
    {f \in [1..Len(rows) -> 1..Len(rows)] :
        /\ \A a, b \in 1..Len(rows) : a # b => f[a] # f[b]
        /\ \A j \in 1..(Len(rows) - 1) : ValLeq(rows[f[j]].v[pk], rows[f[j + 1]].v[pk])}

\* the orders ORDER BY pk DESC may return the rows in (ties in any order)
DescOrders(pk) ==
    {f \in [1..Len(rows) -> 1..Len(rows)] :
        /\ \A a, b \in 1..Len(rows) : a # b => f[a] # f[b]
        /\ \A j \in 1..(Len(rows) - 1) : ValLeq(rows[f[j + 1]].v[pk], rows[f[j]].v[pk])}

\* WHERE CAST(c1 AS TEXT) LIKE ? OR CAST(c2 AS TEXT) LIKE ? ...
SearchHit(m, r, like) == \E j \in 1..Len(m.columns) : CastLike(r.v[m.columns[j]], like)
SearchResult(m, q) ==
    LET like == <<"%">> \o q \o <<"%">>
        Hit(r) == SearchHit(m, r, like)
        hits == SelectSeq(rows, Hit)
    IN  [j \in 1..Len(hits) |-> hits[j].v]

\* app.get('/api/:table/meta')
GetMeta(i) ==
    /\ Ready(i)
    /\ Respond(i, Response("meta", <<>>, NoBody, <<>>, 200, "", <<slots[i].meta>>))
    /\ UNCHANGED <<tableInfo, rows, autoinc, metadataCache>>
    /\ UNCHANGED outside

\* app.get('/api/:table')
ListRows(i) ==
    /\ Ready(i)
    /\ LET m == slots[i].meta IN
       \E qErr \in BOOLEAN :
         IF qErr THEN Generic500(i, "list", <<>>, NoBody, <<>>)
         ELSE IF m.primaryKey = NoPk
         THEN Respond(i, Response("list", <<>>, NoBody, <<>>, 200, "",
                                  [j \in 1..Len(rows) |-> rows[j].v]))
         ELSE \E f \in DescOrders(m.primaryKey) :
                Respond(i, Response("list", <<>>, NoBody, <<>>, 200, "",
                                    [j \in 1..Len(rows) |-> rows[f[j]].v]))
    /\ UNCHANGED <<tableInfo, rows, autoinc, metadataCache>>
    /\ UNCHANGED outside

\* app.get('/api/:table/:id')
GetOne(i) ==
    /\ Ready(i)
    /\ LET m == slots[i].meta IN
       \E id \in IdParams, qErr \in BOOLEAN :
         IF m.primaryKey = NoPk
         THEN Respond(i, Response("get", id, NoBody, <<>>, 400, "Primary key not found for this table", <<>>))
         ELSE IF qErr THEN Generic500(i, "get", id, NoBody, <<>>)
         ELSE IF Matching(tableInfo, m.primaryKey, id) = {}
         THEN Respond(i, Response("get", id, NoBody, <<>>, 404, "Item not found", <<>>))
         ELSE \E j \in Matching(tableInfo, m.primaryKey, id) :
                Respond(i, Response("get", id, NoBody, <<>>, 200, "", <<rows[j].v>>))
    /\ UNCHANGED <<tableInfo, rows, autoinc, metadataCache>>
    /\ UNCHANGED outside

\* app.post('/api/:table')
PostRow(i) ==
    /\ Ready(i)
    /\ LET m == slots[i].meta IN
       \E body \in Bodies, runErr \in BOOLEAN :
         LET keys == WritableKeys(m, body) IN
         IF Len(keys) = 0
         THEN /\ Respond(i, Response("post", <<>>, body, <<>>, 400, "No valid columns provided in request body", <<>>))
              /\ UNCHANGED <<rows, autoinc>>
         ELSE IF runErr
         THEN Generic500(i, "post", <<>>, body, <<>>) /\ UNCHANGED <<rows, autoinc>>
         ELSE /\ NextRowid <= MaxRowid
              /\ rows' = Append(rows, InsertedRow(keys, body))
              /\ autoinc' = IF RowidAlias(tableInfo) # NoPk THEN NextRowid ELSE autoinc
              /\ Respond(i, Response("post", <<>>, body, <<>>, 201, "",
                                     <<Echo(keys, body, m.primaryKey, IntV(NextRowid))>>))
    /\ UNCHANGED <<tableInfo, metadataCache>>
    /\ UNCHANGED outside

\* app.put('/api/:table/:id')
PutStep(i, bodies) ==
    /\ Ready(i)
    /\ LET m == slots[i].meta IN
       \E id \in IdParams, body \in bodies, runErr \in BOOLEAN :
         LET keys == WritableKeys(m, body) IN
         IF m.primaryKey = NoPk
         THEN /\ Respond(i, Response("put", id, body, <<>>, 400, "Primary key not found for this table", <<>>))
              /\ UNCHANGED rows
         ELSE IF Len(keys) = 0
         THEN /\ Respond(i, Response("put", id, body, <<>>, 400, "No updatable columns provided in request body", <<>>))
              /\ UNCHANGED rows
         ELSE IF runErr \/ ~UniqueOk(tableInfo, UpdatedRows(keys, body, m.primaryKey, id))
         THEN Generic500(i, "put", id, body, <<>>) /\ UNCHANGED rows
         ELSE IF Matching(tableInfo, m.primaryKey, id) = {}
         THEN /\ Respond(i, Response("put", id, body, <<>>, 404, "Item not found", <<>>))
              /\ UNCHANGED rows
         ELSE /\ rows' = UpdatedRows(keys, body, m.primaryKey, id)
              /\ Respond(i, Response("put", id, body, <<>>, 200, "",
                                     <<Echo(keys, body, m.primaryKey, TextV(id))>>))
    /\ UNCHANGED <<tableInfo, autoinc, metadataCache>>
    /\ UNCHANGED outside

PutRow(i) == PutStep(i, Bodies)

\* app.delete('/api/:table/:id')
DeleteRow(i) ==
    /\ Ready(i)
    /\ LET m == slots[i].meta IN
       \E id \in IdParams, runErr \in BOOLEAN :
         IF m.primaryKey = NoPk
         THEN /\ Respond(i, Response("delete", id, NoBody, <<>>, 400, "Primary key not found for this table", <<>>))
              /\ UNCHANGED rows
         ELSE IF runErr
         THEN Generic500(i, "delete", id, NoBody, <<>>) /\ UNCHANGED rows
         ELSE IF Matching(tableInfo, m.primaryKey, id) = {}
         THEN /\ Respond(i, Response("delete", id, NoBody, <<>>, 404, "Item not found", <<>>))
              /\ UNCHANGED rows
         ELSE /\ rows' = RemainingRows(m.primaryKey, id)
              /\ Respond(i, Response("delete", id, NoBody, <<>>, 204, "", <<>>))
    /\ UNCHANGED <<tableInfo, autoinc, metadataCache>>
    /\ UNCHANGED outside

\* app.get('/api/:table/search/:q')
SearchStep(i, terms) ==
    /\ Ready(i)
    /\ \E q \in terms, qErr \in BOOLEAN :
         IF qErr THEN Generic500(i, "search", <<>>, NoBody, q)
         ELSE Respond(i, Response("search", <<>>, NoBody, q, 200, "", SearchResult(slots[i].meta, q)))
    /\ UNCHANGED <<tableInfo, rows, autoinc, metadataCache>>
    /\ UNCHANGED outside

SearchRows(i) == SearchStep(i, SearchTerms)

\* ------------------------------------------------------------------ specification
Next ==
    \/ CreateTable
    \/ \E i \in Slots : Arrive(i)
    \/ \E i \in Slots : CatalogDone(i)
    \/ \E i \in Slots : PragmaDone(i)
    \/ \E i \in Slots : GetMeta(i)
    \/ \E i \in Slots : ListRows(i)
    \/ \E i \in Slots : GetOne(i)
    \/ \E i \in Slots : PostRow(i)
    \/ \E i \in Slots : PutRow(i)
    \/ \E i \in Slots : DeleteRow(i)
    \/ \E i \in Slots : SearchRows(i)
    \/ Deliver

Spec == Init /\ [][Next]_vars

\* The callback request i is waiting for: sqlite3 runs every queued statement and calls
\* back, so a pending callback runs sooner or later.
Step(i) ==
    \/ CatalogDone(i)
    \/ PragmaDone(i)
    \/ GetMeta(i)
    \/ ListRows(i)
    \/ GetOne(i)
    \/ PostRow(i)
    \/ PutRow(i)
    \/ DeleteRow(i)
    \/ SearchRows(i)

\* the server starts on an empty database file or on empty tables
InitLive ==
    /\ InitServer(MaxReq)
    /\ rows = <<>>
    /\ autoinc = 0
    /\ tableInfo \in {<<>>} \cup Schemas

SpecLive ==
    /\ InitLive
    /\ [][Next]_vars
    /\ WF_vars(Deliver)
    /\ \A i \in 1..MaxReq : SF_vars(Step(i))

\* ------------------------------------------------------------------ search on texts
\* A table of texts with letters of both cases and the two LIKE wildcards, searched
\* for every such term.
SearchAlphabet == {"a", "A", "b", "%", "_"}
Texts == UNION {[1..n -> SearchAlphabet] : n \in 1..MaxText}

InitSearch ==
    /\ InitServer(1)
    /\ tableInfo = NoKeyInfo
    /\ autoinc = 0
    /\ \E t \in Texts :
         rows = <<[rowid |-> 1, v |-> [name |-> TextV(t), note |-> Null]],
                  [rowid |-> 2, v |-> [name |-> Null, note |-> TextV(<<"A", "b">>)]]>>

SearchTexts(i) == SearchStep(i, Texts)

NextSearch ==
    \/ \E i \in Slots : Arrive(i)
    \/ \E i \in Slots : CatalogDone(i)
    \/ \E i \in Slots : PragmaDone(i)
    \/ \E i \in Slots : SearchTexts(i)
    \/ Deliver

SpecSearch == InitSearch /\ [][NextSearch]_vars

\* ------------------------------------------------------------------ schema changes under load
\* Overlapping requests against a table the operator creates and alters while the
\* server runs; the table starts empty and has a composite key or an id column.
AlteredShapes == {PairInfo, IdOnlyInfo}

InitSchema ==
    /\ InitServer(MaxReq + 1)
    /\ rows = <<>>
    /\ autoinc = 0
    /\ tableInfo \in {<<>>} \cup AlteredShapes

CreateAlteredTable == CreateTableFrom(AlteredShapes)

NextSchema ==
    \/ CreateAlteredTable
    \/ AddColumn
    \/ \E i \in Slots : Arrive(i)
    \/ \E i \in Slots : CatalogDone(i)
    \/ \E i \in Slots : PragmaDone(i)
    \/ \E i \in Slots : GetMeta(i)
    \/ \E i \in Slots : PostRow(i)
    \/ \E i \in Slots : PutRow(i)
    \/ Deliver

SpecSchema == InitSchema /\ [][NextSchema]_vars

\* ------------------------------------------------------------------ clients racing on a row
\* Browsers that loaded the same two products send updates and deletes for them while
\* other requests are still in flight.
RaceBodies ==
    {[name |-> IntV(1)], [name |-> IntV(2)], [price |-> IntV(2)],
     [name |-> IntV(1), price |-> IntV(2)], [name |-> IntV(2), price |-> IntV(2)]}

InitRace ==
    /\ InitServer(MaxReq + 1)
    /\ tableInfo = ProductsInfo
    /\ rows = <<[rowid |-> 1, v |-> [id |-> IntV(1), name |-> Null, price |-> Null]],
                [rowid |-> 2, v |-> [id |-> IntV(2), name |-> Null, price |-> Null]]>>
    /\ autoinc = 2

PutRace(i) == PutStep(i, RaceBodies)

NextRace ==
    \/ \E i \in Slots : Arrive(i)
    \/ \E i \in Slots : CatalogDone(i)
    \/ \E i \in Slots : PragmaDone(i)
    \/ \E i \in Slots : PutRace(i)
    \/ \E i \in Slots : DeleteRow(i)
    \/ Deliver

SpecRace == InitRace /\ [][NextRace]_vars

\* ------------------------------------------------------------------ overlapping first requests
\* Requests for a table that is not cached yet overlap; nobody touches the schema.
InitOverlap ==
    /\ InitServer(MaxReq + 1)
    /\ tableInfo \in Schemas
    /\ rows \in Preloads(tableInfo)
    /\ autoinc = 0

NextOverlap ==
    \/ \E i \in Slots : Arrive(i)
    \/ \E i \in Slots : CatalogDone(i)
    \/ \E i \in Slots : PragmaDone(i)
    \/ \E i \in Slots : GetMeta(i)
    \/ \E i \in Slots : ListRows(i)
    \/ Deliver

SpecOverlap == InitOverlap /\ [][NextOverlap]_vars

\* ------------------------------------------------------------------ the router
\* Requests as Express sees them: a method and the segments of the path.
Methods == {"GET", "POST", "PUT", "DELETE"}
Segments == {"api", "products", "search", "second", "meta", "second.html", "x"}
Paths == UNION {[1..n -> Segments] : n \in 0..MaxPath}
\* files under assets/, public/, js/, css/ ("/" is public/index.html)
StaticFiles == {<<>>, <<"second.html">>}

\* express.static: GET of an existing file; anything else falls through
ServesStatic(method, path) == method = "GET" /\ path \in StaticFiles

\* the routes of the generic family, in registration order
ApiRoute(method, path) ==
    LET n == Len(path) IN
    IF n = 0 \/ path[1] # "api" THEN "none"
    ELSE IF method = "GET" /\ n = 3 /\ path[3] = "meta" THEN "GET /api/:table/meta"
    ELSE IF method = "GET" /\ n = 2 THEN "GET /api/:table"
    ELSE IF method = "GET" /\ n = 3 THEN "GET /api/:table/:id"
    ELSE IF method = "POST" /\ n = 2 THEN "POST /api/:table"
    ELSE IF method = "PUT" /\ n = 3 THEN "PUT /api/:table/:id"
    ELSE IF method = "DELETE" /\ n = 3 THEN "DELETE /api/:table/:id"
    ELSE IF method = "GET" /\ n = 4 /\ path[3] = "search" THEN "GET /api/:table/search/:q"
    ELSE "none"

\* the legacy routes and the second page
LegacyRoute(method, path) ==
    LET n == Len(path) IN
    IF n = 0 THEN "none"
    ELSE IF path[1] = "products" /\ n = 1 /\ method \in {"GET", "POST"} THEN "/products"
    ELSE IF path[1] = "products" /\ n = 2 /\ method \in {"GET", "PUT", "DELETE"} THEN "/products/:id"
    ELSE IF path[1] = "search" /\ n = 2 /\ method = "GET" THEN "GET /search/:searchstring"
    ELSE IF path = <<"second">> /\ method = "GET" THEN "GET /second"
    ELSE "none"

\* mutant: the fallback is registered for every method
FallbackForAll(method, path) == [handler |-> "*", status |-> 200, body |-> "index.html"]

\* app.get('*') and, behind it, Express's own 404
Fallback(method, path) ==
    IF method = "GET" THEN [handler |-> "*", status |-> 200, body |-> "index.html"]
    ELSE [handler |-> "finalhandler", status |-> 404, body |-> "Cannot " \o method]

Dispatch(method, path) ==
    LET to == IF ServesStatic(method, path) THEN [handler |-> "static", status |-> 200, body |-> "file"]
              ELSE IF ApiRoute(method, path) # "none"
              THEN [handler |-> ApiRoute(method, path), status |-> 0, body |-> ""]
              ELSE IF LegacyRoute(method, path) # "none"
              THEN [handler |-> LegacyRoute(method, path), status |-> 0, body |-> ""]
              ELSE Fallback(method, path)
    IN  [method |-> method, path |-> path, handler |-> to.handler, status |-> to.status, body |-> to.body]

\* a request comes in and is dispatched
Route ==
    /\ routed = NoRouted
    /\ \E method \in Methods, path \in Paths : routed' = Dispatch(method, path)
    /\ UNCHANGED <<tableInfo, rows, autoinc, metadataCache, slots, last, pre, arrived, page, others, call>>

\* the handler it reached has answered
Routed ==
    /\ routed # NoRouted
    /\ routed' = NoRouted
    /\ UNCHANGED <<tableInfo, rows, autoinc, metadataCache, slots, last, pre, arrived, page, others, call>>

InitRouter ==
    /\ InitServer(MaxReq)
    /\ tableInfo = <<>>
    /\ rows = <<>>
    /\ autoinc = 0

NextRouter == Route \/ Routed

SpecRouter == InitRouter /\ [][NextRouter]_vars

\* ------------------------------------------------------------------ the tables behind the page
\* The page talks to the /api routes of one database holding the default table and a
\* second one.  Each request of the page is answered in one step here: the metadata
\* lookup and the statement of its handler run without another request in between.
OtherTable == "orders"
OrdersInfo == <<[name |-> "id", type |-> "INTEGER", pk |-> 1],
                [name |-> "item", type |-> "TEXT", pk |-> 0]>>
PageTables == {Table, OtherTable}
InfoOf(t) == IF t = Table THEN tableInfo ELSE OrdersInfo
RowsOf(t) == IF t = Table THEN rows ELSE others.rows
AutoOf(t) == IF t = Table THEN autoinc ELSE others.autoinc

\* JSON text fields of a request body, as the statement binds them
BodyOf(payload) == [c \in DOMAIN payload |-> TextV(payload[c])]

\* SELECT * FROM t [ORDER BY pk DESC]: the row arrays the list route may send
ListedRows(info, rs) ==
    LET pk == MetaOf(info).primaryKey
        n == Len(rs)
    IN  IF pk = NoPk THEN {[j \in 1..n |-> rs[j].v]}
        ELSE {[j \in 1..n |-> rs[f[j]].v] :
                f \in {g \in [1..n -> 1..n] :
                         /\ \A a, b \in 1..n : a # b => g[a] # g[b]
                         /\ \A j \in 1..(n - 1) : ValLeq(rs[g[j + 1]].v[pk], rs[g[j]].v[pk])}}

\* SELECT * FROM t WHERE CAST(c AS TEXT) LIKE '%q%' OR ...
FoundRows(info, rs, q) ==
    LET like == <<"%">> \o q \o <<"%">>
        Hit(r) == SearchHit(MetaOf(info), r, like)
        hits == SelectSeq(rs, Hit)
    IN  [j \in 1..Len(hits) |-> hits[j].v]

\* the rowid the engine gives the next row inserted into a table
NextRowidOf(info, rs, auto) ==
    LET ids == {rs[j].rowid : j \in 1..Len(rs)}
    IN  IF RowidAlias(info) # NoPk THEN MaxOf(ids \cup {auto}) + 1 ELSE MaxOf(ids) + 1

\* INSERT INTO t (keys) VALUES (...)
RowsWithNew(info, rs, auto, keys, body) ==
    LET next == NextRowidOf(info, rs, auto)
    IN  Append(rs, [rowid |-> next,
                    v |-> [c \in ColumnSet(info) |->
                             IF c \in SeqToSet(keys) THEN ApplyAffinity(TypeOf(info, c), body[c])
                             ELSE IF c = RowidAlias(info) THEN IntV(next)
                             ELSE Null]])

\* UPDATE t SET keys = ... WHERE pk = id
RowsUpdated(info, rs, keys, body, pk, id) ==
    [j \in 1..Len(rs) |->
        IF Matches(info, pk, rs[j], id)
        THEN [rowid |-> rs[j].rowid,
              v |-> [c \in ColumnSet(info) |->
                       IF c \in SeqToSet(keys) THEN ApplyAffinity(TypeOf(info, c), body[c])
                       ELSE rs[j].v[c]]]
        ELSE rs[j]]

\* DELETE FROM t WHERE pk = id
RowsWithout(info, rs, pk, id) == Keep(rs, {j \in 1..Len(rs) : Matches(info, pk, rs[j], id)})

\* what a request did: response.ok, the parsed JSON, and the table afterwards
Outcome(ok, data, rs, auto) == [ok |-> ok, data |-> data, rows |-> rs, autoinc |-> auto]
\* a status outside 200..299, or no response at all: the accessor throws
Refused(t) == Outcome(FALSE, <<>>, RowsOf(t), AutoOf(t))
Sent(t, data) == Outcome(TRUE, data, RowsOf(t), AutoOf(t))

\* the outcomes of one request of the page, by the route it reaches
Served(f) ==
    LET info == InfoOf(f.table)
        rs == RowsOf(f.table)
        auto == AutoOf(f.table)
        m == MetaOf(info)
        body == BodyOf(f.body)
        keys == WritableKeys(m, body)
    IN  {Refused(f.table)} \cup
        (IF f.op = "meta" THEN {Sent(f.table, <<m>>)}
         ELSE IF f.op = "list" THEN {Sent(f.table, d) : d \in ListedRows(info, rs)}
         ELSE IF f.op = "search" THEN {Sent(f.table, FoundRows(info, rs, f.q))}
         ELSE IF f.op = "create"
         THEN IF Len(keys) = 0 \/ NextRowidOf(info, rs, auto) > MaxRowid THEN {}
              ELSE {Outcome(TRUE, <<Echo(keys, body, m.primaryKey, IntV(NextRowidOf(info, rs, auto)))>>,
                            RowsWithNew(info, rs, auto, keys, body),
                            IF RowidAlias(info) # NoPk THEN NextRowidOf(info, rs, auto) ELSE auto)}
         ELSE IF f.op = "update"
         THEN IF \/ m.primaryKey = NoPk
                 \/ Len(keys) = 0
                 \/ ~UniqueOk(info, RowsUpdated(info, rs, keys, body, m.primaryKey, f.id))
                 \/ \A j \in 1..Len(rs) : ~Matches(info, m.primaryKey, rs[j], f.id)
              THEN {}
              ELSE {Outcome(TRUE, <<Echo(keys, body, m.primaryKey, TextV(f.id))>>,
                            RowsUpdated(info, rs, keys, body, m.primaryKey, f.id), auto)}
         ELSE IF \/ m.primaryKey = NoPk
                 \/ \A j \in 1..Len(rs) : ~Matches(info, m.primaryKey, rs[j], f.id)
              THEN {}
              ELSE {Outcome(TRUE, <<>>, RowsWithout(info, rs, m.primaryKey, f.id), auto)})

\* the table a request addressed holds what its statement left
Store(t, out) ==
    IF t = Table
    THEN rows' = out.rows /\ autoinc' = out.autoinc /\ others' = others
    ELSE others' = [rows |-> out.rows, autoinc |-> out.autoinc] /\ rows' = rows /\ autoinc' = autoinc

\* ------------------------------------------------------------------ the page orchestrator
\* what a user types into an input of the form, and into the search box
FieldTexts == {<<>>, <<" ">>, <<"a">>, <<"2">>}
SearchInputs == {<<>>, <<"a">>, <<"2">>}

RECURSIVE TrimLeft(_)
TrimLeft(t) == IF Len(t) > 0 /\ t[1] = " " THEN TrimLeft(Tail(t)) ELSE t
RECURSIVE TrimRight(_)
TrimRight(t) == IF Len(t) > 0 /\ t[Len(t)] = " " THEN TrimRight(SubSeq(t, 1, Len(t) - 1)) ELSE t
\* String.prototype.trim
Trim(t) == TrimRight(TrimLeft(t))
\* !value || value.toString().trim() === ''
IsBlank(t) == Trim(t) = <<>>
\* what parseFloat and parseInt look at: leading blanks and one sign are skipped
Unsigned(t) ==
    LET u == TrimLeft(t)
    IN  IF Len(u) > 0 /\ u[1] \in {"+", "-"} THEN Tail(u) ELSE u
\* isNaN(parseFloat(value)): parseFloat reads a leading decimal number and ignores what
\* follows (no text of the model spells Infinity)
ParsesAsNaN(t) ==
    LET v == Unsigned(t)
    IN  ~(Len(v) > 0 /\ (IsDigit(v[1]) \/ (v[1] = "." /\ Len(v) > 1 /\ IsDigit(v[2]))))
\* isNaN(parseInt(value)): parseInt reads leading digits only
ParsesIntAsNaN(t) ==
    LET v == Unsigned(t)
    IN  ~(Len(v) > 0 /\ IsDigit(v[1]))
\* /^[^\s@]+@[^\s@]+\.[^\s@]+$/
IsEmail(t) ==
    /\ \A j \in 1..Len(t) : t[j] # " "
    /\ \E a \in 2..Len(t) :
         /\ t[a] = "@"
         /\ \A j \in 1..Len(t) : t[j] = "@" => j = a
         /\ \E d \in (a + 2)..(Len(t) - 1) : t[d] = "."

\* row[c], with a missing property read like null
Prop(row, c) == IF c \in DOMAIN row THEN row[c] ELSE Null
\* !v
Falsy(v) == v = Null \/ v = IntV(0) \/ v = TextV(<<>>)
\* value: rowData[columnName] || ''  as the input shows it
InputText(row, c) ==
    LET v == Prop(row, c)
    IN  IF Falsy(v) THEN <<>> ELSE IF v.k = "int" THEN IntText(v.n) ELSE v.s
\* encodeURIComponent(pkValue) as the :id path segment
PathText(v) == IF v.k = "int" THEN IntText(v.n) ELSE IF v.k = "text" THEN v.s ELSE <<"n", "u", "l", "l">>

\* one fetch under way: the request, the function awaiting it and what that function holds
Fetch(op, table, id, body, q, by, row) ==
    [op |-> op, table |-> table, id |-> id, body |-> body, q |-> q, by |-> by, row |-> row, late |-> FALSE]
NoRow == [c \in {} |-> Null]
Send(pg, f) == [pg EXCEPT !.fetches = Append(@, f)]
\* the fetches still under way once fetch k is answered
Settled(pg, k) ==
    [pg EXCEPT !.fetches = [j \in 1..(Len(@) - 1) |-> IF j < k THEN @[j] ELSE @[j + 1]]]
Room == Len(page.fetches) < page.cap
Awaits(k, ops) == k \in 1..Len(page.fetches) /\ page.fetches[k].op \in ops

\* handleError(err, { scope })
HandleError(pg, scope, msg) ==
    IF scope = "modal" THEN [pg EXCEPT !.modalError = msg] ELSE [pg EXCEPT !.pageError = msg]
\* clearValidationErrors('modal')
ClearValidationErrors(pg) == [pg EXCEPT !.modalError = "", !.fieldErrors = {}]
\* displayValidationErrors(errors, 'modal')
DisplayValidationErrors(pg, errors) ==
    IF errors = {} THEN ClearValidationErrors(pg)
    ELSE [pg EXCEPT !.fieldErrors = errors, !.modalError = "Please fix the validation error(s)"]

\* the column names of the model, letter by letter
SpelledNames == {"id", "name", "price", "item", "note", "kind", "code", "extra", "Email", "mail_id", "paid"}
Spelling(c) ==
    CASE c = "id" -> <<"i", "d">>
      [] c = "name" -> <<"n", "a", "m", "e">>
      [] c = "price" -> <<"p", "r", "i", "c", "e">>
      [] c = "item" -> <<"i", "t", "e", "m">>
      [] c = "note" -> <<"n", "o", "t", "e">>
      [] c = "kind" -> <<"k", "i", "n", "d">>
      [] c = "code" -> <<"c", "o", "d", "e">>
      [] c = "extra" -> <<"e", "x", "t", "r", "a">>
      [] c = "Email" -> <<"E", "m", "a", "i", "l">>
      [] c = "mail_id" -> <<"m", "a", "i", "l", "_", "i", "d">>
      [] c = "paid" -> <<"p", "a", "i", "d">>
UpperLetters == <<"A", "B", "C", "D", "E", "F", "G", "H", "I", "J", "K", "L", "M", "N", "O", "P", "Q", "R", "S", "T", "U", "V", "W", "X", "Y", "Z">>
LowerLetters == <<"a", "b", "c", "d", "e", "f", "g", "h", "i", "j", "k", "l", "m", "n", "o", "p", "q", "r", "s", "t", "u", "v", "w", "x", "y", "z">>
\* String.prototype.toLowerCase on a name
LowerCase(t) ==
    [j \in 1..Len(t) |->
        IF \E u \in 1..26 : UpperLetters[u] = t[j]
        THEN LowerLetters[CHOOSE u \in 1..26 : UpperLetters[u] = t[j]]
        ELSE t[j]]
\* String.prototype.includes(part)
Includes(t, part) == \E j \in 0..(Len(t) - Len(part)) : SubSeq(t, j + 1, j + Len(part)) = part
\* the words inferFieldType looks for
MailWords == {<<"e", "m", "a", "i", "l">>, <<"m", "a", "i", "l">>}
NumberWords == {<<"i", "d">>, <<"c", "o", "u", "n", "t">>, <<"n", "u", "m", "b", "e", "r">>, <<"p", "r", "i", "c", "e">>, <<"a", "m", "o", "u", "n", "t">>, <<"q", "u", "a", "n", "t", "i", "t", "y">>}
\* mutant: the numeric words are looked for before the mail words
InferFieldTypeNumberFirst(c) ==
    LET name == LowerCase(Spelling(c))
    IN  IF \E w \in NumberWords : Includes(name, w) THEN "number"
        ELSE IF \E w \in MailWords : Includes(name, w) THEN "email"
        ELSE "text"
\* inferFieldType
InferFieldType(c) ==
    LET name == LowerCase(Spelling(c))
    IN  IF \E w \in MailWords : Includes(name, w) THEN "email"
        ELSE IF \E w \in NumberWords : Includes(name, w) THEN "number"
        ELSE "text"
\* inferProductFieldType: name.includes('price') first
InferProductFieldType(c) ==
    IF Includes(LowerCase(Spelling(c)), <<"p", "r", "i", "c", "e">>) THEN "number" ELSE InferFieldType(c)
\* createFieldConfig(columns, primaryKey)
CreateFieldConfig(columns, primaryKey) ==
    [c \in SeqToSet(columns) |->
        [required |-> c # primaryKey, type |-> InferFieldType(c), isPrimaryKey |-> c = primaryKey]]

\* validateNotEmpty: the message thrown, "" when the rule passes
ValidateNotEmpty(value) == IF value = <<>> \/ Trim(value) = <<>> THEN "cannot be empty" ELSE ""
\* mutant: every text passes for an email address
ValidateEmailAny(value) == ""
\* validateEmail
ValidateEmail(value) ==
    IF value # <<>> /\ Trim(value) # <<>> /\ ~IsEmail(Trim(value)) THEN "must be a valid email address" ELSE ""
\* validateNumber
ValidateNumber(value) ==
    IF value # <<>> /\ Trim(value) # <<>> /\ ParsesAsNaN(value) THEN "must be a valid number" ELSE ""
\* validateInteger: Number.isInteger holds of every parseInt result that is not NaN
ValidateInteger(value) ==
    IF value # <<>> /\ Trim(value) # <<>> /\ ParsesIntAsNaN(value) THEN "must be a valid integer" ELSE ""
\* validateText: the value is a string
ValidateText(value) == IF value = <<>> \/ Trim(value) = <<>> THEN "must be valid text" ELSE ""
\* the type names a configuration of the model spells, and String.prototype.toLowerCase on them
TypeNames == {"text", "email", "Email", "number", "integer", "date"}
ToLowerCase(type) == IF type = "Email" THEN "email" ELSE type
\* const { required = true, type = 'text', isPrimaryKey = false } = options
Options(cfg) ==
    [required |-> IF "required" \in DOMAIN cfg THEN cfg.required ELSE TRUE,
     type |-> IF "type" \in DOMAIN cfg THEN cfg.type ELSE "text",
     isPrimaryKey |-> IF "isPrimaryKey" \in DOMAIN cfg THEN cfg.isPrimaryKey ELSE FALSE]

\* mutant: a required field is not checked for emptiness
ValidateFieldLax(value, cfg) ==
    IF ~IsBlank(value) /\ cfg.type = "number" /\ ParsesAsNaN(value) THEN "must be a valid number"
    ELSE ""

\* validateField: the message of the first rule that throws, "" when none does
ValidateField(value, cfg) ==
    LET o == Options(cfg)
        filled == value # <<>> /\ Trim(value) # <<>>
        type == ToLowerCase(o.type)
        notEmpty == IF o.required THEN ValidateNotEmpty(value) ELSE ""
        byType == IF ~filled THEN ""
                  ELSE IF type = "email" THEN ValidateEmail(value)
                  ELSE IF type = "number" THEN ValidateNumber(value)
                  ELSE IF type = "integer" THEN ValidateInteger(value)
                  ELSE ValidateText(value)
        asKey == IF o.isPrimaryKey /\ filled THEN ValidateNumber(value) ELSE ""
    IN  IF notEmpty # "" THEN notEmpty ELSE IF byType # "" THEN byType ELSE asKey

\* validateForm(formData, fieldConfigs).errors: one entry per failing field
ValidateForm(formData, configs) ==
    LET Value(c) == IF c \in DOMAIN formData THEN formData[c] ELSE <<>>
    IN  {[field |-> c, message |-> ValidateField(Value(c), configs[c])] :
            c \in {x \in DOMAIN configs : ValidateField(Value(x), configs[x]) # ""}}

\* displayallitems(tableName): the list is fetched; nothing else happens before the answer
DisplayAllItems(pg, tableName, by) ==
    Send(pg, Fetch("list", tableName, <<>>, NoFields, <<>>, by, NoRow))

\* mutant: the inputs are blanked and the edit target is kept
ResetFormKeepsTarget(pg) ==
    ClearValidationErrors([pg EXCEPT !.currentFormFields = [c \in DOMAIN @ |-> <<>>]])

\* resetForm
ResetForm(pg) ==
    ClearValidationErrors([pg EXCEPT !.currentFormFields = [c \in DOMAIN @ |-> <<>>],
                                     !.editedItemPkValue = Null])
\* closeModal
CloseModal(pg) == ResetForm([pg EXCEPT !.modal = FALSE, !.built = NoBuilt])

\* loadTableMeta returns without a request for the table it loaded last
MetaLoaded(pg, tableName) == pg.currentTableMeta # NullMeta /\ pg.currentTableMeta.table = tableName
\* the inputs buildDynamicForm creates: every column but the primary key
FormFields(meta, row, prefill) ==
    [c \in SeqToSet(meta.columns) \ {meta.primaryKey} |-> IF prefill THEN InputText(row, c) ELSE <<>>]
\* prepareEditForm once buildDynamicForm has returned
EditReady(pg, meta, row) ==
    [pg EXCEPT !.currentTableMeta = meta,
               !.currentFormFields = FormFields(meta, row, TRUE),
               !.editedItemPkValue = IF meta.primaryKey # NoPk THEN Prop(row, meta.primaryKey) ELSE Null,
               !.modalError = "", !.fieldErrors = {},
               !.modal = TRUE,
               !.built = [by |-> "edit", key |-> IF meta.primaryKey # NoPk THEN Prop(row, meta.primaryKey) ELSE Null]]
\* the addNew click handler once buildDynamicForm has returned
AddReady(pg, meta) ==
    [pg EXCEPT !.currentTableMeta = meta,
               !.currentFormFields = FormFields(meta, NoRow, FALSE),
               !.modalError = "", !.fieldErrors = {},
               !.built = [by |-> "add", key |-> Null]]

\* the server side as the page specification leaves it
backend == <<tableInfo, metadataCache, slots, last, pre, arrived, routed, call>>
tables == <<rows, autoinc, others>>
\* the page as a handler finds it: pageError holds the message the step before handed to
\* handleError at page scope, and no message once another step has run
Now == [page EXCEPT !.pageError = ""]

\* the browser loads index.html, which shows the default table
LoadPage ==
    /\ ~page.loaded
    /\ page' = DisplayAllItems([Now EXCEPT !.loaded = TRUE], Table, "load")
    /\ UNCHANGED <<backend, tables>>

\* the hosting page calls displayallitems('your_table')
CallDisplayAllItems ==
    /\ page.loaded /\ ~page.modal /\ Room
    /\ \E t \in PageTables : page' = DisplayAllItems(Now, t, "call")
    /\ UNCHANGED <<backend, tables>>

\* the refresh control of the rendered table: () => displayallitems(currentTable)
Refresh ==
    /\ page.loaded /\ ~page.modal /\ Room
    /\ page' = DisplayAllItems(Now, page.currentTable, "refresh")
    /\ UNCHANGED <<backend, tables>>

\* displayfiltereditems() with the text of the search box
DisplayFilteredItems ==
    /\ page.loaded /\ ~page.modal /\ Room
    /\ \E typed \in SearchInputs :
         page' = IF Trim(typed) = <<>> THEN DisplayAllItems(Now, Table, "search")
                 ELSE Send(Now, Fetch("search", Table, <<>>, NoFields, Trim(typed), "search", NoRow))
    /\ UNCHANGED <<backend, tables>>

\* the current row array and the rendered table after a fetch of rows
Rendered(pg, f, data) ==
    [pg EXCEPT !.currentRows = data, !.shown = data, !.shownTable = f.table, !.shownOp = f.op]

\* the fetches of rows sent before fetch k and still under way are late once k is rendered
Overtaken(pg, k) ==
    [pg EXCEPT !.fetches = [j \in 1..Len(@) |->
                              IF j < k /\ @[j].op \in {"list", "search"} THEN [@[j] EXCEPT !.late = TRUE] ELSE @[j]]]

\* displayallitems / displayfiltereditems resume with the rows, or in their catch block
RowsAnswered(k) ==
    /\ Awaits(k, {"list", "search"})
    /\ LET f == page.fetches[k] IN
       \E out \in Served(f) :
         page' = IF out.ok THEN Rendered(Settled(Overtaken(Now, k), k), f, out.data)
                 ELSE HandleError(Settled(Now, k), "page", "Fetch failed")
    /\ UNCHANGED <<backend, tables>>

\* the addNew button: the modal opens, the form is built for the current table
AddNew ==
    /\ page.loaded /\ ~page.modal
    /\ LET pg == [Now EXCEPT !.editedItemPkValue = Null, !.modal = TRUE] IN
       IF MetaLoaded(page, page.currentTable) THEN page' = AddReady(pg, page.currentTableMeta)
       ELSE Room /\ page' = Send(pg, Fetch("meta", page.currentTable, <<>>, NoFields, <<>>, "add", NoRow))
    /\ UNCHANGED <<backend, tables>>

\* prepareEditForm(rowIndex)
PrepareEditForm(rowIndex) ==
    /\ page.loaded /\ ~page.modal
    /\ IF rowIndex < 0 \/ rowIndex >= Len(page.currentRows)
       THEN page' = HandleError(Now, "page", "Invalid row index")
       ELSE LET rowData == page.currentRows[rowIndex + 1] IN
            IF MetaLoaded(page, page.currentTable)
            THEN page' = EditReady(Now, page.currentTableMeta, rowData)
            ELSE Room /\ page' = Send(Now, Fetch("meta", page.currentTable, <<>>, NoFields, <<>>, "edit", rowData))
    /\ UNCHANGED <<backend, tables>>

\* buildDynamicForm resumes with the metadata, or its caller in the catch block
MetaAnswered(k) ==
    /\ Awaits(k, {"meta"})
    /\ LET f == page.fetches[k]
           pg == Settled(Now, k)
       IN  \E out \in Served(f) :
             page' = IF ~out.ok
                     THEN HandleError(pg, IF f.by = "add" THEN "modal" ELSE "page", "Failed to load metadata")
                     ELSE LET meta == [columns |-> out.data[1].columns,
                                       primaryKey |-> out.data[1].primaryKey,
                                       table |-> f.table]
                          IN  IF f.by = "add" THEN AddReady(pg, meta) ELSE EditReady(pg, meta, f.row)
    /\ UNCHANGED <<backend, tables>>

\* the user types into an input of the open form
TypeField ==
    /\ page.modal
    /\ \E c \in DOMAIN page.currentFormFields, typed \in FieldTexts :
         /\ typed # page.currentFormFields[c]
         /\ page' = [Now EXCEPT !.currentFormFields[c] = typed]
    /\ UNCHANGED <<backend, tables>>

\* mutant: a target of 0 is taken for no target
SaveRowFalsyTarget(pg) ==
    LET filled == {c \in DOMAIN pg.currentFormFields : Trim(pg.currentFormFields[c]) # <<>>}
        payload == [c \in filled |-> Trim(pg.currentFormFields[c])]
    IN  IF filled = {} THEN HandleError(pg, "modal", "Please fill in at least one field")
        ELSE IF Falsy(pg.editedItemPkValue)
        THEN Send(pg, Fetch("create", pg.currentTable, <<>>, payload, <<>>, "save", NoRow))
        ELSE Send(pg, Fetch("update", pg.currentTable, PathText(pg.editedItemPkValue), payload, <<>>, "save", NoRow))

\* saveRow up to its await
SaveRow(pg) ==
    LET filled == {c \in DOMAIN pg.currentFormFields : Trim(pg.currentFormFields[c]) # <<>>}
        payload == [c \in filled |-> Trim(pg.currentFormFields[c])]
    IN  IF filled = {} THEN HandleError(pg, "modal", "Please fill in at least one field")
        ELSE IF pg.editedItemPkValue = Null \/ pg.editedItemPkValue = TextV(<<>>)
        THEN Send(pg, Fetch("create", pg.currentTable, <<>>, payload, <<>>, "save", NoRow))
        ELSE Send(pg, Fetch("update", pg.currentTable, PathText(pg.editedItemPkValue), payload, <<>>, "save", NoRow))

\* the form's submit handler: handleFormSubmission / validateAndSubmitForm
HandleFormSubmission ==
    /\ page.modal /\ Room
    /\ page' = IF page.currentTableMeta = NullMeta
               THEN HandleError(Now, "modal", "Table metadata not loaded")
               ELSE LET errors == ValidateForm(page.currentFormFields,
                                               CreateFieldConfig(page.currentTableMeta.columns,
                                                                 page.currentTableMeta.primaryKey))
                    IN  IF errors # {} THEN DisplayValidationErrors(Now, errors)
                        ELSE SaveRow(ClearValidationErrors(Now))
    /\ UNCHANGED <<backend, tables>>

\* mutant: the catch block also resets the form
SaveAnsweredResets(k) ==
    /\ Awaits(k, {"create", "update"})
    /\ LET f == page.fetches[k]
           pg == Settled(Now, k)
       IN  \E out \in Served(f) :
             /\ page' = IF out.ok THEN CloseModal(DisplayAllItems(ResetForm(pg), pg.currentTable, f.op))
                        ELSE HandleError(ResetForm(pg), "modal", "Save failed")
             /\ Store(f.table, out)
    /\ UNCHANGED backend

\* saveRow resumes after createRow / updateRow, or in its catch block
SaveAnswered(k) ==
    /\ Awaits(k, {"create", "update"})
    /\ LET f == page.fetches[k]
           pg == Settled(Now, k)
       IN  \E out \in Served(f) :
             /\ page' = IF out.ok THEN CloseModal(DisplayAllItems(ResetForm(pg), pg.currentTable, f.op))
                        ELSE HandleError(pg, "modal", "Save failed")
             /\ Store(f.table, out)
    /\ UNCHANGED backend

\* mutant: the request is sent without asking the user
DeleterowUnconfirmed(rowIndex, confirmed) ==
    /\ page.loaded /\ ~page.modal /\ Room
    /\ page' =
         IF rowIndex < 0 \/ rowIndex >= Len(page.currentRows)
         THEN HandleError(Now, "page", "Invalid row index")
         ELSE LET rowData == page.currentRows[rowIndex + 1]
                  pk == page.currentTableMeta.primaryKey
                  pkValue == Prop(rowData, pk)
              IN  IF page.currentTableMeta = NullMeta \/ pk = NoPk
                  THEN HandleError(Now, "page", "No primary key found for deletion")
                  ELSE IF Falsy(pkValue) /\ pkValue # IntV(0)
                  THEN HandleError(Now, "page", "Invalid primary key value for deletion")
                  ELSE Send(Now, Fetch("delete", page.currentTable, PathText(pkValue), NoFields, <<>>, "delete", NoRow))
    /\ UNCHANGED <<backend, tables>>

\* deleterow(rowIndex) up to its await; confirmed is the user's answer to confirm()
Deleterow(rowIndex, confirmed) ==
    /\ page.loaded /\ ~page.modal /\ Room
    /\ page' =
         IF rowIndex < 0 \/ rowIndex >= Len(page.currentRows)
         THEN HandleError(Now, "page", "Invalid row index")
         ELSE LET rowData == page.currentRows[rowIndex + 1]
                  pk == page.currentTableMeta.primaryKey
                  pkValue == Prop(rowData, pk)
              IN  IF page.currentTableMeta = NullMeta \/ pk = NoPk
                  THEN HandleError(Now, "page", "No primary key found for deletion")
                  ELSE IF Falsy(pkValue) /\ pkValue # IntV(0)
                  THEN HandleError(Now, "page", "Invalid primary key value for deletion")
                  ELSE IF ~confirmed THEN Now
                  ELSE Send(Now, Fetch("delete", page.currentTable, PathText(pkValue), NoFields, <<>>, "delete", NoRow))
    /\ UNCHANGED <<backend, tables>>

\* deleterow resumes after deleteRow, or in its catch block
DeleteAnswered(k) ==
    /\ Awaits(k, {"delete"})
    /\ LET f == page.fetches[k]
           pg == Settled(Now, k)
       IN  \E out \in Served(f) :
             /\ page' = IF out.ok THEN DisplayAllItems(pg, pg.currentTable, "delete")
                        ELSE HandleError(pg, "page", "Delete failed")
             /\ Store(f.table, out)
    /\ UNCHANGED backend

\* the user dismisses the modal: hidden.bs.modal runs resetForm
HideModal ==
    /\ page.modal
    /\ page' = ResetForm([Now EXCEPT !.modal = FALSE, !.built = NoBuilt])
    /\ UNCHANGED <<backend, tables>>

\* the tables as the page finds them: every row with its key only
KeyedRows(info, ids) ==
    [j \in 1..Len(ids) |->
        [rowid |-> ids[j],
         v |-> [c \in ColumnSet(info) |-> IF c = RowidAlias(info) THEN IntV(ids[j]) ELSE Null]]]

InitPage ==
    /\ metadataCache = [t \in {} |-> NoMeta]
    /\ slots = [i \in 1..MaxReq |-> Idle]
    /\ last = NoResponse
    /\ pre = NoPre
    /\ arrived = <<>>
    /\ routed = NoRouted
    /\ page = NoPage
    /\ tableInfo \in {ProductsInfo, NoKeyInfo}
    /\ rows = KeyedRows(tableInfo, [j \in 1..(MaxRowid - 1) |-> j])
    /\ autoinc = IF RowidAlias(tableInfo) # NoPk THEN MaxRowid - 1 ELSE 0
    /\ others = [rows |-> KeyedRows(OrdersInfo, <<MaxRowid>>), autoinc |-> MaxRowid]
    /\ call = NoCall

NextPage ==
    \/ LoadPage
    \/ CallDisplayAllItems
    \/ Refresh
    \/ DisplayFilteredItems
    \/ \E k \in 1..MaxReq : RowsAnswered(k)
    \/ AddNew
    \/ \E rowIndex \in 0..MaxRowid : PrepareEditForm(rowIndex)
    \/ \E k \in 1..MaxReq : MetaAnswered(k)
    \/ TypeField
    \/ HandleFormSubmission
    \/ \E k \in 1..MaxReq : SaveAnswered(k)
    \/ \E rowIndex \in 0..MaxRowid, confirmed \in BOOLEAN : Deleterow(rowIndex, confirmed)
    \/ \E k \in 1..MaxReq : DeleteAnswered(k)
    \/ HideModal

SpecPage == InitPage /\ [][NextPage]_vars

\* the list and its row controls, no form submitted
NextDelete ==
    \/ LoadPage
    \/ Refresh
    \/ \E k \in 1..MaxReq : RowsAnswered(k)
    \/ AddNew
    \/ \E rowIndex \in 0..MaxRowid : PrepareEditForm(rowIndex)
    \/ \E k \in 1..MaxReq : MetaAnswered(k)
    \/ \E rowIndex \in 0..MaxRowid, confirmed \in BOOLEAN : Deleterow(rowIndex, confirmed)
    \/ \E k \in 1..MaxReq : DeleteAnswered(k)
    \/ HideModal

SpecDelete == InitPage /\ [][NextDelete]_vars

\* the search box and the add/edit form, no row deleted
NextForm ==
    \/ LoadPage
    \/ DisplayFilteredItems
    \/ \E k \in 1..MaxReq : RowsAnswered(k)
    \/ AddNew
    \/ \E rowIndex \in 0..MaxRowid : PrepareEditForm(rowIndex)
    \/ \E k \in 1..MaxReq : MetaAnswered(k)
    \/ TypeField
    \/ HandleFormSubmission
    \/ \E k \in 1..MaxReq : SaveAnswered(k)
    \/ HideModal

SpecForm == InitPage /\ [][NextForm]_vars

\* ------------------------------------------------------------------ reading the claims
\* The key the routes address rows by, read off the table itself.
KeyColumn(info) ==
    IF \E j \in 1..Len(info) : info[j].pk = 1
    THEN info[CHOOSE j \in 1..Len(info) : info[j].pk = 1].name
    ELSE IF \E j \in 1..Len(info) : info[j].name = "id" THEN "id" ELSE NoPk
HasKey == tableInfo # <<>> /\ KeyColumn(tableInfo) # NoPk
\* row r holds key value id (ids are numerals, key columns hold integers or NULL)
Holds(r, id) == r.v[KeyColumn(tableInfo)] = IntV(TextInt(id))
Holders(rs, id) == {j \in 1..Len(rs) : Holds(rs[j], id)}
KeyValues(rs) == {rs[j].v[KeyColumn(tableInfo)] : j \in 1..Len(rs)} \ {Null}
\* body keys that are columns of the table other than its key
Updatable(body) == (DOMAIN body \cap ColumnSet(tableInfo)) \ {KeyColumn(tableInfo)}
Answered(route) == last.route = route
EngineFailed == last.msg \in {"engine", "Internal server error"}
\* rs without the rows at the positions in drop
Without(rs, drop) ==
    LET left == {j \in 1..Len(rs) : j \notin drop}
        Nth(n) == CHOOSE j \in left : Cardinality({x \in left : x < j}) = n - 1
    IN  [n \in 1..Cardinality(left) |-> rs[Nth(n)]]

\* C1 (as claimed): a DELETE /api/T/k answered 204 removed exactly one row.
C1_DeleteRemovesOneRow ==
    (Answered("delete") /\ last.status = 204) => Len(rows) = Len(pre.rows) - 1

\* C1: DELETE /api/T/k on a table with a key, when some row holds k, answers 204 and
\* removes every row holding k (one row when the key values are distinct), leaving the
\* other rows as they were; when no row holds k it answers 404 and changes nothing;
\* and a key value enters the table only by an insert, so a repeated delete with no
\* insert in between answers 404.
C1_DeleteStep ==
    /\ (Quiet /\ last'.route = "delete" /\ HasKey /\ last'.status # 500 /\ last'.msg # "engine") =>
          IF Holders(rows, last'.id) # {}
          THEN /\ last'.status = 204
               /\ rows' = Without(rows, Holders(rows, last'.id))
               /\ Holders(rows', last'.id) = {}
          ELSE last'.status = 404 /\ rows' = rows
    /\ (HasKey /\ ~(Quiet /\ last'.route = "post" /\ last'.status = 201)) =>
          KeyValues(rows') \subseteq KeyValues(rows)
C1_DeleteNotRepeatable == [][C1_DeleteStep]_vars
C1_Witness ==
    /\ Answered("delete") /\ last.status = 404
    /\ Len(pre.rows) > 0

\* q occurs in text t, letters compared without regard to case
Lower(c) == IF c = "A" THEN "a" ELSE IF c = "B" THEN "b" ELSE c
Contains(t, q) ==
    \E o \in 0..(Len(t) - Len(q)) : \A j \in 1..Len(q) : Lower(t[o + j]) = Lower(q[j])
\* the text rendering of some column of row r contains q
RowContains(r, q) ==
    \E c \in DOMAIN r.v : r.v[c].k # "null" /\ Contains(CastText(r.v[c]).s, q)
ContainingRows(q) ==
    LET Has(r) == RowContains(r, q)
        hits == SelectSeq(rows, Has)
    IN  [j \in 1..Len(hits) |-> hits[j].v]

\* C2 (as claimed): GET /api/T/search/q answers with exactly the rows in which some
\* column's text contains q without regard to case, also when q contains % or _.
C2_SearchIsSubstringMatch ==
    (Answered("search") /\ last.status = 200) => last.data = ContainingRows(last.q)

\* C2, side check: the same for terms free of the LIKE wildcards.
C2_PlainTerms ==
    (Answered("search") /\ last.status = 200 /\ SeqToSet(last.q) \cap {"%", "_"} = {}) =>
        last.data = ContainingRows(last.q)

\* C3: POST /api/T whose body has no key that is a non-key column of T answers 400 and
\* leaves the rows of T unchanged.
C3_PostNoValidColumns ==
    (Answered("post") /\ tableInfo # <<>> /\ Updatable(last.body) = {}) =>
        last.status = 400 /\ rows = pre.rows
C3_Witness ==
    /\ Answered("post") /\ last.status = 400
    /\ DOMAIN last.body = {"extra", KeyColumn(tableInfo)}
    /\ Len(rows) > 0

\* C4: PUT /api/T/k on a table with a key, with an updatable column in the body, when no
\* row holds k: 404 (500 if the engine fails), no row inserted, no row changed.
C4_PutMissingRow ==
    (Answered("put") /\ HasKey /\ Updatable(last.body) # {} /\ Holders(pre.rows, last.id) = {}) =>
        /\ last.status \in {404, 500}
        /\ rows = pre.rows
C4_Witness ==
    /\ Answered("put") /\ last.status = 404
    /\ Len(rows) > 0

\* the value a body value is stored as in column c
Stored(body, c) == ApplyAffinity(TypeOf(tableInfo, c), body[c])

\* C5: POST and PUT write exactly the body keys that are non-key columns: other body
\* keys are ignored without error, a key value in the body changes no row's key, PUT
\* leaves the addressed rows' other columns and every other row as they were.
C5_WrittenColumns ==
    /\ (Answered("post") /\ last.status = 201) =>
          /\ Len(rows) = Len(pre.rows) + 1
          /\ SubSeq(rows, 1, Len(pre.rows)) = pre.rows
          /\ \A c \in ColumnSet(tableInfo) :
                rows[Len(rows)].v[c] =
                    IF c \in Updatable(last.body) THEN Stored(last.body, c)
                    ELSE IF c = RowidAlias(tableInfo) THEN IntV(rows[Len(rows)].rowid)
                    ELSE Null
    /\ (Answered("put") /\ last.status = 200) =>
          /\ Len(rows) = Len(pre.rows)
          /\ \A j \in 1..Len(rows) :
                /\ rows[j].rowid = pre.rows[j].rowid
                /\ \A c \in ColumnSet(tableInfo) :
                      rows[j].v[c] =
                          IF Holds(pre.rows[j], last.id) /\ c \in Updatable(last.body)
                          THEN Stored(last.body, c)
                          ELSE pre.rows[j].v[c]
    /\ (Answered("post") /\ Updatable(last.body) # {}) => last.status \in {201, 500}
    /\ (Answered("put") /\ HasKey /\ Updatable(last.body) # {}) => last.status \in {200, 404, 500}
    /\ (Answered("put") /\ last.status # 200) => rows = pre.rows
    /\ (Answered("post") /\ last.status # 201) => rows = pre.rows
C5_Witness ==
    /\ Answered("put") /\ last.status = 200
    /\ {"extra", KeyColumn(tableInfo)} \subseteq DOMAIN last.body
    /\ Cardinality(Updatable(last.body)) = 1
    /\ Cardinality(ColumnSet(tableInfo)) > 2
    /\ Len(rows) = 2 /\ Cardinality(Holders(rows, last.id)) = 1

\* order of key values: NULL below every integer
KeyRank(val) == IF val.k = "null" THEN -1 ELSE val.n
ListedKey(j) == last.data[j][KeyColumn(tableInfo)]
\* the rows listed are the rows of the table, each once
ListsEveryRow ==
    /\ Len(last.data) = Len(rows)
    /\ \E f \in [1..Len(rows) -> 1..Len(rows)] :
          /\ \A a, b \in 1..Len(rows) : a # b => f[a] # f[b]
          /\ \A j \in 1..Len(rows) : last.data[j] = rows[f[j]].v

\* C6 (as claimed): GET /api/T on a table with a key lists the rows in strictly
\* descending key order.
C6_StrictlyDescending ==
    (Answered("list") /\ last.status = 200 /\ HasKey) =>
        \A j \in 1..(Len(last.data) - 1) : KeyRank(ListedKey(j)) > KeyRank(ListedKey(j + 1))

\* C6: GET /api/T answers 200 (500 if the engine fails) with every row exactly once; on
\* a table with a key the key values never increase down the list (NULLs last), so
\* they strictly decrease wherever they are distinct; an empty table gives an empty array.
C6_ListDescending ==
    /\ (Answered("list") /\ tableInfo # <<>> /\ ~EngineFailed) =>
          last.status = 200 /\ ListsEveryRow
    /\ (Answered("list") /\ last.status = 200 /\ HasKey) =>
          \A j \in 1..(Len(last.data) - 1) : KeyRank(ListedKey(j)) >= KeyRank(ListedKey(j + 1))
C6_Witness ==
    /\ Answered("list") /\ last.status = 200 /\ HasKey
    /\ Len(last.data) = 2
    /\ KeyRank(ListedKey(1)) > KeyRank(ListedKey(2))
    /\ rows[1].v = last.data[2]

\* C7: on a table with neither a flagged key column nor a column named id, GET, PUT and
\* DELETE /api/T/:id answer 400 and touch no row (PUT says so even when the body has
\* no updatable key), while list, search and meta answer 200 unless the engine fails.
C7_NoPrimaryKey ==
    (tableInfo # <<>> /\ KeyColumn(tableInfo) = NoPk) =>
        /\ last.route \in {"get", "put", "delete"} =>
              /\ last.status = 400
              /\ last.msg \in {"Primary key not found for this table", "engine"}
              /\ rows = pre.rows
        /\ (last.route \in {"list", "search", "meta"} /\ ~EngineFailed) => last.status = 200
C7_Witness ==
    /\ tableInfo = NoKeyInfo
    /\ Answered("put") /\ last.status = 400
    /\ last.msg = "Primary key not found for this table"
    /\ Updatable(last.body) = {}
    /\ Len(rows) > 0

\* C8 (as claimed): primaryKey is the first column, in column order, that is flagged.
C8_FirstFlaggedInColumnOrder ==
    (Table \in DOMAIN metadataCache /\ KeyColumns(tableInfo) # {}) =>
        \E j \in 1..Len(tableInfo) :
            /\ tableInfo[j].name = metadataCache[Table].primaryKey
            /\ tableInfo[j].pk > 0
            /\ \A x \in 1..(j - 1) : tableInfo[x].pk = 0

\* C8: primaryKey is the column the engine reports as first in the declared key (key
\* position 1), wherever it stands among the columns; with no flagged column it is the
\* column named id when there is one, else absent; columns is the full ordered list.
C8_PrimaryKeyChoice ==
    Table \in DOMAIN metadataCache =>
        LET m == metadataCache[Table] IN
        /\ m.columns = [j \in 1..Len(tableInfo) |-> tableInfo[j].name]
        /\ KeyColumns(tableInfo) # {} =>
              \E j \in 1..Len(tableInfo) : tableInfo[j].name = m.primaryKey /\ tableInfo[j].pk = 1
        /\ (KeyColumns(tableInfo) = {} /\ "id" \in ColumnSet(tableInfo)) => m.primaryKey = "id"
        /\ (KeyColumns(tableInfo) = {} /\ "id" \notin ColumnSet(tableInfo)) => m.primaryKey = NoPk
C8_Witness ==
    /\ Table \in DOMAIN metadataCache
    /\ tableInfo = PairInfo
    /\ metadataCache[Table].primaryKey = "code"

Cached == Table \in DOMAIN metadataCache

\* C9 (as claimed): once getTableMetadata has succeeded for T, the cached
\* {columns, primaryKey} stays what it is, whatever happens to the schema.
C9_CacheNeverChanges == [][Cached => metadataCache' = metadataCache]_vars

\* C9: a request that arrives while the cache holds an entry for T is served with that
\* entry without a catalog query, whatever T's schema has become: served with an entry
\* that lacks an added column c, GET /api/T/meta omits c and a POST or PUT whose only
\* body key is c answers 400 and writes nothing. A schema change leaves the cache alone;
\* the entry is never dropped, and it is replaced only by the completion of an
\* introspection that was already past the cache lookup.
C9_Step ==
    /\ \A i \in Slots :
          (Cached /\ slots[i].pc = "idle" /\ slots'[i].pc # "idle") =>
              slots'[i] = [pc |-> "ready", meta |-> metadataCache[Table]]
    /\ Cached => Table \in DOMAIN metadataCache'
    /\ (Cached /\ metadataCache' # metadataCache) =>
          \E i \in Slots : slots[i].pc = "pragma" /\ slots'[i].pc = "ready"
    /\ tableInfo' # tableInfo => metadataCache' = metadataCache
    /\ (Quiet /\ last'.route = "meta" /\ last'.status = 200) => last'.data = <<pre'.meta>>
    /\ (Quiet /\ last'.route \in {"post", "put"} /\ last'.status # 0
          /\ DOMAIN last'.body = {"extra"} /\ "extra" \notin SeqToSet(pre'.meta.columns)) =>
          last'.status = 400 /\ rows' = rows
C9_CachedMetadataServed == [][C9_Step]_vars
C9_Witness ==
    /\ Answered("post") /\ last.status = 400
    /\ DOMAIN last.body = {"extra"}
    /\ "extra" \in ColumnSet(tableInfo)
    /\ pre.meta.columns # <<>>

\* C10 (as claimed): the engine's error text never appears in a response body.
C10_NoEngineTextInResponses == last.msg # "engine"

Statuses == {200, 201, 204, 400, 404, 500}
Open(i) == slots[i].pc # "idle"
\* callbacks still ahead of a request at this position
PcRank(pc) == IF pc = "catalog" THEN 3 ELSE IF pc = "pragma" THEN 2 ELSE IF pc = "ready" THEN 1 ELSE 0

\* C11: every request ends with exactly one response, with a status among 200, 201,
\* 204, 400, 404, 500: a response goes out only as the last act of exactly one open
\* request (never two), a request closes only by sending a response, and it cannot
\* end with none: the callback an open request waits for can always run, and each
\* callback brings the request nearer its response.
C11_Step ==
    /\ (Quiet /\ last' # NoResponse) =>
          /\ last'.status \in Statuses
          /\ \E i \in Slots :
                /\ Open(i) /\ slots'[i] = Idle
                /\ \A j \in Slots \ {i} : slots'[j] = slots[j]
    /\ \A i \in Slots : (Open(i) /\ slots'[i].pc = "idle") => (Quiet /\ last' # NoResponse)
    /\ ~Quiet => slots' = slots
    /\ \A i \in Slots : (Open(i) /\ Quiet) => ENABLED Step(i)
    /\ \A i \in Slots : (Open(i) /\ slots'[i] # slots[i]) => PcRank(slots'[i].pc) < PcRank(slots[i].pc)
C11_OneResponse == [][C11_Step]_vars
C11_Witness ==
    /\ Answered("post") /\ last.status = 500
    /\ Table \in DOMAIN metadataCache

\* C11, side check under SpecLive: with the callbacks run fairly, an open request is
\* always closed in the end.
C11_EveryRequestAnswered == \A i \in 1..MaxReq : Open(i) ~> ~Open(i)

\* the table's key is an auto-incrementing integer key
AutoKey == tableInfo # <<>> /\ RowidAlias(tableInfo) # NoPk
\* the row of rs holding key n
RowOf(rs, n) == rs[CHOOSE j \in 1..Len(rs) : rs[j].v[KeyColumn(tableInfo)] = IntV(n)]
HasRow(rs, n) == \E j \in 1..Len(rs) : rs[j].v[KeyColumn(tableInfo)] = IntV(n)
NewKey == last.data[1][KeyColumn(tableInfo)]

C12_Step ==
    /\ (Quiet /\ last'.route = "post" /\ last'.status = 201 /\ AutoKey) =>
          LET n == last'.data[1][KeyColumn(tableInfo)].n IN
          /\ last'.data[1][KeyColumn(tableInfo)] = IntV(n)
          /\ \A c \in Updatable(last'.body) : last'.data[1][c] = last'.body[c]
          /\ DOMAIN last'.data[1] = Updatable(last'.body) \cup {KeyColumn(tableInfo)}
          /\ ~HasRow(rows, n)
          /\ HasRow(rows', n)
          /\ \A c \in Updatable(last'.body) :
                RowOf(rows', n).v[c] = ApplyAffinity(TypeOf(tableInfo, c), last'.body[c])
    /\ (Quiet /\ last'.route = "get" /\ AutoKey /\ ~EngineFailed') =>
          IF HasRow(rows, TextInt(last'.id))
          THEN last'.status = 200 /\ last'.data = <<RowOf(rows, TextInt(last'.id)).v>>
          ELSE last'.status = 404
    /\ AutoKey =>
          \A n \in 1..MaxRowid :
             (HasRow(rows, n) /\ ~(Quiet /\ last'.route \in {"put", "delete"} /\ last'.id = IntText(n))) =>
                 (HasRow(rows', n) /\ RowOf(rows', n) = RowOf(rows, n))
Closes(i) == Open(i) /\ slots'[i].pc = "idle"

\* C13 (as claimed): updates and deletes are applied in arrival order: the request
\* answered is the one that arrived first among those in flight.
C13_AppliedInArrivalOrder == [][\A i \in Slots : Closes(i) => arrived[1] = i]_vars

\* C13: updates and deletes of a row are applied one at a time, in the order their
\* statements run (not always the order of arrival), with no conflict detection: an
\* update that runs while the row exists answers 200 and overwrites exactly the
\* columns it supplies, whatever other clients wrote before, so each column ends as
\* the last update that supplied it left it; a delete that runs while the row exists
\* answers 204; an update or delete that runs after the row is gone answers 404 and
\* changes nothing; a deleted row never comes back. Only an engine failure (500)
\* rejects a request.
C13_Step ==
    /\ (Quiet /\ last'.route = "put" /\ ~EngineFailed') =>
          IF HasRow(rows, TextInt(last'.id))
          THEN /\ last'.status = 200
               /\ Len(rows') = Len(rows)
               /\ \A j \in 1..Len(rows) : \A c \in ColumnSet(tableInfo) :
                     rows'[j].v[c] =
                         IF Holds(rows[j], last'.id) /\ c \in Updatable(last'.body)
                         THEN ApplyAffinity(TypeOf(tableInfo, c), last'.body[c])
                         ELSE rows[j].v[c]
          ELSE last'.status = 404 /\ rows' = rows
    /\ (Quiet /\ last'.route = "delete" /\ ~EngineFailed') =>
          IF HasRow(rows, TextInt(last'.id))
          THEN /\ last'.status = 204
               /\ ~HasRow(rows', TextInt(last'.id))
               /\ Len(rows') = Len(rows) - 1
          ELSE last'.status = 404 /\ rows' = rows
    /\ \A n \in 1..MaxRowid : HasRow(rows', n) => HasRow(rows, n)
    /\ \A i \in Slots : Closes(i) => \E p \in 1..Len(arrived) : arrived[p] = i
C13_LastWriteWins == [][C13_Step]_vars
\* an update answered 200 after another client's update of the same column, while a
\* request that arrived earlier is still in flight
C13_Witness ==
    /\ Answered("put") /\ last.status = 200
    /\ HasRow(pre.rows, TextInt(last.id))
    /\ RowOf(pre.rows, TextInt(last.id)).v["name"] = TextV(<<"1">>)
    /\ RowOf(rows, TextInt(last.id)).v["name"] = TextV(<<"2">>)
    /\ arrived # <<>>

\* what one request alone caches for the table: its columns in order and its key
SingleMeta == [columns |-> [j \in 1..Len(tableInfo) |-> tableInfo[j].name],
               primaryKey |-> KeyColumn(tableInfo)]

\* C14: when requests for a table not yet cached overlap and the schema stays as it
\* is, each may run its own introspection, every one of them is handed the same
\* {columns, primaryKey}, GET /api/T/meta answers with it, and from the first success
\* on the cache holds one entry, for that table, equal to what a single request would
\* have cached.
C14_SameMetadata ==
    /\ \A i \in Slots : slots[i].pc = "ready" => (slots[i].meta = SingleMeta /\ Cached)
    /\ DOMAIN metadataCache \subseteq {Table}
    /\ Cached => metadataCache[Table] = SingleMeta
    /\ (Answered("meta") /\ last.status = 200) => last.data = <<SingleMeta>>
\* one request has been answered from its own introspection while another, which
\* missed the cache too, is still waiting for its PRAGMA
C14_Witness ==
    /\ Answered("meta") /\ last.status = 200
    /\ Cached
    /\ \E i \in Slots : slots[i].pc = "pragma"

\* the request reached neither a file nor one of the named routes
Unmatched == routed.method # "" /\ routed.handler \in {"*", "finalhandler"}

\* C15 (as claimed): a request no specific route or static file matches is answered 200
\* with the primary page, whatever its method.
C15_FallbackForEveryMethod ==
    Unmatched => (routed.status = 200 /\ routed.body = "index.html")

\* C15: a GET that no specific route or static file matches, malformed /api paths
\* included, is answered 200 with the primary page; a POST, PUT or DELETE that nothing
\* matches reaches no handler of the application and gets Express's 404.
C15_FallbackRoute ==
    /\ (Unmatched /\ routed.method = "GET") => (routed.status = 200 /\ routed.body = "index.html")
    /\ (Unmatched /\ routed.method # "GET") => (routed.status = 404 /\ routed.handler = "finalhandler")
    /\ (routed.method # "" /\ ~ServesStatic(routed.method, routed.path)
           /\ ApiRoute(routed.method, routed.path) = "none"
           /\ LegacyRoute(routed.method, routed.path) = "none") => Unmatched
C15_Witness ==
    /\ routed.method = "GET" /\ routed.handler = "*"
    /\ Len(routed.path) = 4 /\ routed.path[1] = "api" /\ routed.path[3] # "search"

\* ------------------------------------------------------------------ the page's claims
\* the primary key of the table the orchestrator's requests address, read off the table
TableKey == MetaOf(InfoOf(page.currentTable)).primaryKey
ValidIndex(i) == i >= 0 /\ i < Len(page.currentRows)
\* the delete request for the row at position i of the current row array
DeleteOf(i, pk) ==
    Fetch("delete", page.currentTable, PathText(Prop(page.currentRows[i + 1], pk)),
          NoFields, <<>>, "delete", NoRow)
NoKeyError == "No primary key found for deletion"

\* C16: on a table with a primary key, deleterow(i) with a valid index and a confirming
\* user sends exactly one delete request, addressed to the key of the row at position i
\* of the current row array, in every state of the loaded page; the 'no primary key'
\* error is raised only on a table without a primary key.
C16_Step ==
    \A i \in 0..MaxRowid :
        (Deleterow(i, TRUE) /\ ValidIndex(i)) =>
            /\ TableKey # NoPk => page'.fetches = Append(page.fetches, DeleteOf(i, TableKey))
            /\ page'.pageError = NoKeyError => TableKey = NoPk
C16_DeleteAfterLoad == [][C16_Step]_vars

\* the delete requests under way
Deletes(pg) == Cardinality({k \in 1..Len(pg.fetches) : pg.fetches[k].op = "delete"})
\* the key deleterow reads for the row at position i, through the metadata the page holds
ResolvedKey(i) == Prop(page.currentRows[i + 1], page.currentTableMeta.primaryKey)
HasResolvedKey(i) ==
    /\ page.currentTableMeta.primaryKey # NoPk
    /\ ResolvedKey(i) \notin {Null, TextV(<<>>)}

\* C17: a delete request is sent only by deleterow(i) with i inside the current row
\* array, a primary-key value resolved for that row and a confirming user, and it is
\* addressed to that value; with an invalid index or a declining user no request is sent
\* and the current row array, the rendered list, the edit target and the server's rows
\* stay as they are.
C17_Step ==
    /\ Deletes(page') > Deletes(page) =>
         \E i \in 0..MaxRowid :
            /\ Deleterow(i, TRUE)
            /\ ValidIndex(i) /\ HasResolvedKey(i)
            /\ page'.fetches = Append(page.fetches, DeleteOf(i, page.currentTableMeta.primaryKey))
    /\ \A i \in 0..MaxRowid, confirmed \in BOOLEAN :
         (Deleterow(i, confirmed) /\ (~ValidIndex(i) \/ ~confirmed)) =>
            /\ page'.fetches = page.fetches
            /\ page'.currentRows = page.currentRows
            /\ page'.shown = page.shown
            /\ page'.editedItemPkValue = page.editedItemPkValue
            /\ rows' = rows /\ others' = others
C17_DeleteOnlyWhenConfirmed == [][C17_Step]_vars
\* a confirmed deleterow has sent its request for a row of the list
C17_Witness ==
    /\ Deletes(page) = 1
    /\ page.currentRows # <<>>
    /\ page.currentTableMeta.primaryKey # NoPk

\* what form-level validation reports for the form as it stands
Reported ==
    ValidateForm(page.currentFormFields,
                 CreateFieldConfig(page.currentTableMeta.columns, page.currentTableMeta.primaryKey))
\* the orchestrator's session state
Session(pg) ==
    <<pg.currentTable, pg.currentRows, pg.editedItemPkValue, pg.currentTableMeta, pg.currentFormFields>>
\* the form of a table with columns id (primary key), name and price, name filled and
\* price empty
NameWithoutPrice(pg) ==
    /\ pg.currentTableMeta.columns = <<"id", "name", "price">>
    /\ pg.currentTableMeta.primaryKey = "id"
    /\ Trim(pg.currentFormFields["name"]) # <<>>
    /\ Trim(pg.currentFormFields["price"]) = <<>>

\* C18: when validation of a submitted form reports an error, the errors are shown, no
\* create or update request is sent and the session state and the tables stay as they
\* are; with name filled and price empty on (id, name, price) exactly one error is
\* reported, for price.
C18_Step ==
    (HandleFormSubmission /\ page.currentTableMeta # NullMeta) =>
        /\ Reported # {} =>
             /\ page'.fieldErrors = Reported
             /\ page'.fetches = page.fetches
             /\ Session(page') = Session(page)
             /\ page'.modal
             /\ rows' = rows /\ others' = others
        /\ NameWithoutPrice(page) =>
             /\ Cardinality(page'.fieldErrors) = 1
             /\ \A e \in page'.fieldErrors : e.field = "price"
             /\ page'.fetches = page.fetches
C18_InvalidFormNotSubmitted == [][C18_Step]_vars
\* the form was submitted with name filled and price empty, and its error is shown
C18_Witness ==
    /\ page.modal
    /\ NameWithoutPrice(page)
    /\ page.fieldErrors = {[field |-> "price", message |-> "cannot be empty"]}
    /\ page.fetches = <<>>

\* the list request saveRow starts after a successful update
ListAfterUpdate(f) == f.op = "list" /\ f.by = "update"

\* C19: when saveRow resumes after a successful update, the edit target is absent, the
\* modal is closed and one list request for the current table is under way; when that
\* request is answered with rows, the current row array and the rendered table are the
\* rows it returned, the full list of the current table, whatever was displayed before.
C19_Step ==
    \A k \in 1..MaxReq :
        /\ (SaveAnswered(k) /\ page.fetches[k].op = "update" /\ page'.modalError = "") =>
              /\ page'.editedItemPkValue = Null
              /\ ~page'.modal
              /\ Len(page'.fetches) = Len(page.fetches)
              /\ page'.fetches[Len(page'.fetches)] =
                    Fetch("list", page.currentTable, <<>>, NoFields, <<>>, "update", NoRow)
        /\ (RowsAnswered(k) /\ ListAfterUpdate(page.fetches[k]) /\ page'.pageError = "") =>
              /\ page'.currentRows \in ListedRows(InfoOf(page.currentTable), RowsOf(page.currentTable))
              /\ page'.shown = page'.currentRows
              /\ page'.shownTable = page.currentTable
              /\ page'.shownOp = "list"
C19_FullListAfterUpdate == [][C19_Step]_vars
\* an edited row was saved while a search result hiding another row was displayed: the
\* target is cleared, the modal closed and the list request under way
C19_Witness ==
    /\ page.shownOp = "search"
    /\ page.shown # <<>>
    /\ Len(page.shown) < Len(rows)
    /\ \E k \in 1..Len(page.fetches) : ListAfterUpdate(page.fetches[k])
    /\ ~page.modal
    /\ page.editedItemPkValue = Null

\* an edit, delete, save or refresh triggered from the rendered list
ListControl ==
    \/ Refresh
    \/ \E i \in 0..MaxRowid : PrepareEditForm(i)
    \/ \E i \in 0..MaxRowid, confirmed \in BOOLEAN : Deleterow(i, confirmed)
    \/ HandleFormSubmission

\* C20: once displayallitems has rendered the rows of a table other than the default,
\* every request an edit, delete, save or refresh control of that list sends is
\* addressed to the table whose rows are displayed.
C20_Step ==
    (page.shownTable = OtherTable /\ ListControl /\ Len(page'.fetches) > Len(page.fetches)) =>
        page'.fetches[Len(page'.fetches)].table = page.shownTable
C20_RequestsTargetDisplayedTable == [][C20_Step]_vars

\* ------------------------------------------------------------------ the validation library on its own
\* Each function of the library is called with arguments of bounded sets; the call and
\* what it returned or threw are kept in call until the caller goes on.
rest == <<tableInfo, rows, autoinc, metadataCache, slots, last, pre, arrived, routed, page, others>>

\* the values handed to validateField
LibTexts ==
    FieldTexts \cup {<<"a", "b", "c">>, <<"x", "@", "y", ".", "c", "o", "m">>, <<" ", "2">>, <<"2", "a">>, <<"-", "2">>, <<".", "5">>, <<"a", "@", "b">>}
LibNames == {"Name", "Email", "Age"}
LibOptions ==
    [required : BOOLEAN, type : TypeNames, isPrimaryKey : BOOLEAN]
        \cup [type : TypeNames] \cup [required : BOOLEAN]
\* throw new ValidationError(message, fieldName), or return true
Thrown(name, message) ==
    IF message = "" THEN [ok |-> TRUE, field |-> "", message |-> ""]
    ELSE [ok |-> FALSE, field |-> name, message |-> message]

CallValidateField ==
    /\ call.fn = ""
    /\ \E value \in LibTexts, name \in LibNames, options \in LibOptions :
           call' = [fn |-> "validateField", args |-> <<value, name, options>>,
                    result |-> Thrown(name, ValidateField(value, options))]
    /\ UNCHANGED rest

\* the forms and the field configurations handed to validateForm: Object.entries
\* walks the configured fields in the order they were added
FormNames == {"id", "name", "price"}
FormTexts == {<<>>, <<"a">>, <<"2">>}
FormDatas == UNION {[names -> FormTexts] : names \in SUBSET FormNames}
FormOptions == {[required |-> TRUE, type |-> "text", isPrimaryKey |-> FALSE],
                [required |-> FALSE, type |-> "number", isPrimaryKey |-> FALSE]}
FormEntries ==
    {<<>>} \cup {<<[name |-> n, config |-> o]>> : n \in {"name", "price"}, o \in FormOptions}
           \cup {<<[name |-> nm[1], config |-> o], [name |-> nm[2], config |-> q]>> :
                    nm \in {<<"name", "price">>, <<"price", "name">>}, o \in FormOptions, q \in FormOptions}

RECURSIVE ValidateFormErrors(_, _)
\* mutant: the loop ends at the first field that fails
ValidateFormErrorsFirst(formData, entries) ==
    LET Value(n) == IF n \in DOMAIN formData THEN formData[n] ELSE <<>>
        Message(j) == ValidateField(Value(entries[j].name), entries[j].config)
        failing == {j \in 1..Len(entries) : Message(j) # ""}
    IN  IF failing = {} THEN <<>>
        ELSE LET j == CHOOSE x \in failing : \A y \in failing : x <= y
             IN  <<[field |-> entries[j].name, message |-> Message(j)]>>
\* validateForm: the errors array after the loop over Object.entries(fieldConfigs)
ValidateFormErrors(formData, entries) ==
    IF entries = <<>> THEN <<>>
    ELSE LET e == Head(entries)
             value == IF e.name \in DOMAIN formData /\ formData[e.name] # <<>> THEN formData[e.name] ELSE <<>>
             thrown == Thrown(e.name, ValidateField(value, e.config))
         IN  (IF thrown.ok THEN <<>> ELSE <<[field |-> thrown.field, message |-> thrown.message]>>)
                 \o ValidateFormErrors(formData, Tail(entries))

CallValidateForm ==
    /\ call.fn = ""
    /\ \E formData \in FormDatas, entries \in FormEntries :
           LET errors == ValidateFormErrors(formData, entries)
           IN  call' = [fn |-> "validateForm", args |-> <<formData, entries>>,
                        result |-> [isValid |-> Len(errors) = 0, errors |-> errors]]
    /\ UNCHANGED rest

\* the column lists and the key handed to createFieldConfig
LibColumns == {"id", "name", "price", "Email", "mail_id", "paid"}
LibColumnLists ==
    {<<>>, <<"id", "name", "price">>} \cup {<<c>> : c \in LibColumns} \cup {<<c, d>> : c \in LibColumns, d \in LibColumns}

CallCreateFieldConfig ==
    /\ call.fn = ""
    /\ \E columns \in LibColumnLists, primaryKey \in LibColumns \cup {NoPk} :
           call' = [fn |-> "createFieldConfig", args |-> <<columns, primaryKey>>,
                    result |-> CreateFieldConfig(columns, primaryKey)]
    /\ UNCHANGED rest

\* the caller goes on
Return ==
    /\ call.fn # ""
    /\ call' = NoCall
    /\ UNCHANGED rest

NextValidation == CallValidateField \/ CallValidateForm \/ CallCreateFieldConfig \/ Return

SpecValidation == InitPage /\ [][NextValidation]_vars

\* C21: validateForm returns exactly one {field, message} entry for each configured field
\* whose value (a missing key read as the empty string) fails validateField, none for a
\* field that passes or is not configured, goes on after a failure, and isValid is true
\* exactly when errors is empty.
C21_OneErrorPerFailingField ==
    call.fn = "validateForm" =>
        LET formData == call.args[1]
            entries == call.args[2]
            errors == call.result.errors
            Value(n) == IF n \in DOMAIN formData THEN formData[n] ELSE <<>>
            About(n) == {k \in 1..Len(errors) : errors[k].field = n}
        IN  /\ \A j \in 1..Len(entries) :
                   LET message == ValidateField(Value(entries[j].name), entries[j].config)
                   IN  IF message = "" THEN About(entries[j].name) = {}
                       ELSE /\ Cardinality(About(entries[j].name)) = 1
                            /\ \A k \in About(entries[j].name) : errors[k].message = message
            /\ \A k \in 1..Len(errors) : \E j \in 1..Len(entries) : entries[j].name = errors[k].field
            /\ call.result.isValid = (errors = <<>>)
\* a form with two invalid fields gave two entries naming distinct fields
C21_Witness ==
    /\ call.fn = "validateForm"
    /\ ~call.result.isValid
    /\ Len(call.result.errors) = 2
    /\ call.result.errors[1].field # call.result.errors[2].field

\* the rule of a type rejects a non-empty text; the text rule stands for every other type
\* and rejects no non-empty text
RuleRejects(type, value) ==
    IF ToLowerCase(type) = "email" THEN ~IsEmail(Trim(value))
    ELSE IF ToLowerCase(type) = "number" THEN ParsesAsNaN(value)
    ELSE IF ToLowerCase(type) = "integer" THEN ParsesIntAsNaN(value)
    ELSE FALSE
\* C22: validateField(value, name, {required, type, isPrimaryKey}) raises a failure naming
\* name exactly when required and the trimmed value is empty, or the value is non-empty
\* and the rule of its type rejects it, or it is a primary key, non-empty and not a
\* number; the not-empty rule comes first, and an empty value that is not required passes.
C22_FieldRule ==
    call.fn = "validateField" =>
        LET value == call.args[1]
            name == call.args[2]
            o == Options(call.args[3])
            empty == Trim(value) = <<>>
            fails == \/ o.required /\ empty
                     \/ ~empty /\ RuleRejects(o.type, value)
                     \/ o.isPrimaryKey /\ ~empty /\ ParsesAsNaN(value)
        IN  /\ call.result.ok = ~fails
            /\ ~call.result.ok => call.result.field = name
            /\ (o.required /\ empty) => call.result.message = "cannot be empty"
            /\ (~o.required /\ empty) => call.result.ok
            /\ (value = <<>> /\ name = "Name" /\ call.args[3] = [required |-> TRUE]) => ~call.result.ok
            /\ (value = <<"x", "@", "y", ".", "c", "o", "m">> /\ call.args[3] = [type |-> "email"]) => call.result.ok
            /\ (value = <<"a", "b", "c">> /\ call.args[3] = [type |-> "number"]) => ~call.result.ok
\* validateField("abc", "Age", {type: "number"}) raised a failure naming Age
C22_Witness ==
    /\ call.fn = "validateField"
    /\ call.args = <<<<"a", "b", "c">>, "Age", [type |-> "number"]>>
    /\ ~call.result.ok
    /\ call.result.field = "Age"

\* the type the name heuristic gives each column name of the model
ExpectedType(c) ==
    IF c \in {"Email", "mail_id"} THEN "email"
    ELSE IF c \in {"id", "price", "paid"} THEN "number"
    ELSE "text"
\* C25: createFieldConfig(columns, pk) yields one entry per column with required = the
\* column is not pk, isPrimaryKey = the column is pk, and the type inferred from the
\* lower-cased name: email when it contains mail, else number when it contains id, count,
\* number, price, amount or quantity, else text.
C25_FieldConfig ==
    call.fn = "createFieldConfig" =>
        LET columns == call.args[1]
            pk == call.args[2]
            config == call.result
        IN  /\ DOMAIN config = SeqToSet(columns)
            /\ \A c \in DOMAIN config :
                   /\ config[c].required = (c # pk)
                   /\ config[c].isPrimaryKey = (c = pk)
                   /\ config[c].type = ExpectedType(c)
            /\ (columns = <<"id", "name", "price">> /\ pk = "id") =>
                   /\ config["id"] = [required |-> FALSE, type |-> "number", isPrimaryKey |-> TRUE]
                   /\ config["name"] = [required |-> TRUE, type |-> "text", isPrimaryKey |-> FALSE]
                   /\ config["price"] = [required |-> TRUE, type |-> "number", isPrimaryKey |-> FALSE]
\* createFieldConfig(["id", "name", "price"], "id") was called and gave three entries
C25_Witness ==
    /\ call.fn = "createFieldConfig"
    /\ call.args = <<<<"id", "name", "price">>, "id">>
    /\ DOMAIN call.result = {"id", "name", "price"}
    /\ ~call.result["id"].required

\* ------------------------------------------------------------------ the form builder on its own
\* the values a column of a row holds
RowValues == {Null, IntV(0), IntV(2), TextV(<<>>), TextV(<<"a">>)}
\* the metadata of the tables of the model, as loadTableMeta keeps it
FormMetas ==
    {[columns |-> ColumnNames(info), primaryKey |-> MetaOf(info).primaryKey, table |-> Table] : info \in {ProductsInfo, NoKeyInfo}}
\* currentTableMeta.columns.filter(col => col !== currentTableMeta.primaryKey)
FormColumns(meta) == SelectSeq(meta.columns, LAMBDA c : c # meta.primaryKey)
\* the text inputs appended to the modal body, in the order of formColumns.forEach
FormInputs(meta, row, prefill) ==
    [j \in 1..Len(FormColumns(meta)) |->
        [name |-> FormColumns(meta)[j],
         value |-> IF prefill THEN InputText(row, FormColumns(meta)[j]) ELSE <<>>]]

\* buildDynamicForm(rowData) with the metadata loaded; rowData is null when adding
CallBuildDynamicForm ==
    /\ call.fn = ""
    /\ \E meta \in FormMetas, prefill \in BOOLEAN :
         \E row \in (IF prefill THEN [SeqToSet(meta.columns) -> RowValues] ELSE {NoRow}) :
           call' = [fn |-> "buildDynamicForm", args |-> <<meta, row, prefill>>,
                    result |-> [inputs |-> FormInputs(meta, row, prefill),
                                fields |-> FormFields(meta, row, prefill)]]
    /\ UNCHANGED rest

NextBuildForm == CallBuildDynamicForm \/ Return

SpecBuildForm == InitPage /\ [][NextBuildForm]_vars

\* a value of a row as a text input shows it
ShownText(v) == IF v = Null THEN <<>> ELSE IF v.k = "int" THEN IntText(v.n) ELSE v.s
\* C23: buildDynamicForm makes one text input per column that is not the primary key, in
\* column order, and the field map has those columns as keys; when editing, each input
\* holds the row's value of its column, 0 and other falsy values included; when adding,
\* every input is empty.
C23_InputsHoldRowValues ==
    call.fn = "buildDynamicForm" =>
        LET meta == call.args[1]
            row == call.args[2]
            prefill == call.args[3]
            inputs == call.result.inputs
        IN  /\ [j \in 1..Len(inputs) |-> inputs[j].name] = FormColumns(meta)
            /\ DOMAIN call.result.fields = SeqToSet(meta.columns) \ {meta.primaryKey}
            /\ \A j \in 1..Len(inputs) :
                   /\ inputs[j].value = (IF prefill THEN ShownText(row[inputs[j].name]) ELSE <<>>)
                   /\ call.result.fields[inputs[j].name] = inputs[j].value

\* ------------------------------------------------------------------ the data access functions on their own
Accessors == {"fetchAllItems", "fetchFilteredItems", "createItem", "updateItem", "deleteItem", "fetchTableMeta"}
\* the status of the response fetch resolves with
ResponseStatuses == {200, 201, 204, 299, 300, 304, 400, 404, 500}
\* mutant: a redirect counts as success
ResponseOkBelow400(status) == status \in 200..399
\* response.ok
ResponseOk(status) == status \in 200..299
\* the message of the Error an accessor throws: its fixed words, then the status or the
\* table name it interpolates (status 0: the message has no status)
ErrorMessage(op, tableName, status) ==
    IF op \in {"fetchAllItems", "fetchFilteredItems"}
    THEN [words |-> "HTTP error! status: ", status |-> status, table |-> ""]
    ELSE IF op = "createItem" THEN [words |-> "Create failed: ", status |-> status, table |-> ""]
    ELSE IF op = "updateItem" THEN [words |-> "Update failed: ", status |-> status, table |-> ""]
    ELSE IF op = "deleteItem" THEN [words |-> "Deletion failed: ", status |-> status, table |-> ""]
    ELSE [words |-> "Failed to load metadata for ", status |-> 0, table |-> tableName]
\* an accessor once its fetch has resolved: it throws, or returns the response or its body
Accessor(op, tableName, status) ==
    IF ~ResponseOk(status)
    THEN [threw |-> TRUE, message |-> ErrorMessage(op, tableName, status)]
    ELSE [threw |-> FALSE, message |-> [words |-> "", status |-> 0, table |-> ""]]

CallAccessor ==
    /\ call.fn = ""
    /\ \E op \in Accessors, tableName \in PageTables, status \in ResponseStatuses :
           call' = [fn |-> op, args |-> <<tableName, status>>, result |-> Accessor(op, tableName, status)]
    /\ UNCHANGED rest

NextAccess == CallAccessor \/ Return

SpecAccess == InitPage /\ [][NextAccess]_vars

\* the fixed words of a message that say which operation failed
NamesOperation(words, op) ==
    \/ op = "createItem" /\ words = "Create failed: "
    \/ op = "updateItem" /\ words = "Update failed: "
    \/ op = "deleteItem" /\ words = "Deletion failed: "
    \/ op = "fetchTableMeta" /\ words = "Failed to load metadata for "
KeyOnlyInfo == <<[name |-> "id", type |-> "INTEGER", pk |-> 1]>>
\* the default table has a row whose key is 0, or has no column to fill in; the keys up
\* to MaxRowid have been given out before, so that an insert is refused
InitSave ==
    /\ metadataCache = [t \in {} |-> NoMeta]
    /\ slots = [i \in 1..MaxReq |-> Idle]
    /\ last = NoResponse
    /\ pre = NoPre
    /\ arrived = <<>>
    /\ routed = NoRouted
    /\ page = NoPage
    /\ tableInfo \in {ProductsInfo, KeyOnlyInfo}
    /\ rows = KeyedRows(tableInfo, [j \in 1..(MaxRowid - 1) |-> j - 1])
    /\ autoinc = MaxRowid
    /\ others = [rows |-> KeyedRows(OrdersInfo, <<MaxRowid>>), autoinc |-> MaxRowid]
    /\ call = NoCall

SpecSave == InitSave /\ [][NextForm]_vars

\* the submit handler has metadata and a form that passes validation: it calls saveRow
CallsSaveRow ==
    /\ page.currentTableMeta # NullMeta
    /\ ValidateForm(page.currentFormFields,
                    CreateFieldConfig(page.currentTableMeta.columns, page.currentTableMeta.primaryKey)) = {}
\* the tracked fields whose trimmed value is not empty, with that value
PayloadOf(fields) ==
    [c \in {x \in DOMAIN fields : Trim(fields[x]) # <<>>} |-> Trim(fields[c])]
\* C26: saveRow builds its payload from the tracked fields whose trimmed value is not
\* empty; with an empty payload it reports an error at modal scope and sends nothing;
\* otherwise it sends one request on the current table: a create when the edit target is
\* null or the empty string, else an update addressed to the edit target, 0 included.
C26_Step ==
    (CallsSaveRow /\ HandleFormSubmission) =>
        LET payload == PayloadOf(page.currentFormFields)
            target == page.editedItemPkValue
            n == Len(page.fetches)
        IN  IF DOMAIN payload = {}
            THEN page'.fetches = page.fetches /\ page'.modalError = "Please fill in at least one field"
            ELSE /\ Len(page'.fetches) = n + 1
                 /\ SubSeq(page'.fetches, 1, n) = page.fetches
                 /\ page'.fetches[n + 1].table = page.currentTable
                 /\ page'.fetches[n + 1].body = payload
                 /\ IF target = Null \/ target = TextV(<<>>)
                    THEN page'.fetches[n + 1].op = "create"
                    ELSE /\ page'.fetches[n + 1].op = "update"
                         /\ page'.fetches[n + 1].id = PathText(target)
C26_SaveRowRequest == [][C26_Step]_vars
\* saveRow has sent the update of the row whose key is 0
C26_Witness ==
    /\ page.editedItemPkValue = IntV(0)
    /\ \E k \in 1..Len(page.fetches) :
          page.fetches[k].op = "update" /\ page.fetches[k].id = <<"0">> /\ DOMAIN page.fetches[k].body # {}
\* saveRow found nothing to send
C26_EmptyPayload ==
    page.modal /\ page.modalError = "Please fill in at least one field" /\ page.fetches = <<>>

\* the form is as it was when request f was sent from it
AsSubmitted(pg, f) ==
    /\ pg.modal
    /\ PayloadOf(pg.currentFormFields) = f.body
    /\ pg.currentTable = f.table
    /\ IF f.op = "create" THEN pg.editedItemPkValue \in {Null, TextV(<<>>)}
       ELSE pg.editedItemPkValue \notin {Null, TextV(<<>>)} /\ PathText(pg.editedItemPkValue) = f.id
\* the request saveRow sends from a page
Resubmitted(pg) == LET sent == SaveRow(ClearValidationErrors(pg)).fetches IN sent[Len(sent)]
\* C27: when the create or update request of saveRow fails, the error is reported at
\* modal scope, the modal is not dismissed, the edit target and every field value are
\* unchanged and no list request is sent, so that submitting the form again sends the
\* same operation for the same row.
C27_Step ==
    \A k \in 1..MaxReq :
        (SaveAnswered(k) /\ page'.modalError # "") =>
            LET f == page.fetches[k]
            IN  /\ page'.modalError = "Save failed"
                /\ page'.pageError = ""
                /\ page'.modal = page.modal
                /\ page'.editedItemPkValue = page.editedItemPkValue
                /\ page'.currentFormFields = page.currentFormFields
                /\ page'.fetches = Settled(page, k).fetches
                /\ page'.currentRows = page.currentRows /\ page'.shown = page.shown
                /\ AsSubmitted(page, f) =>
                       /\ Resubmitted(page').op = f.op
                       /\ Resubmitted(page').id = f.id
                       /\ Resubmitted(page').table = f.table
                       /\ Resubmitted(page').body = f.body
C27_FailedSaveKeepsForm == [][C27_Step]_vars
\* the update of a row has failed: the modal is open on the same row with its fields
C27_Witness ==
    /\ page.modal
    /\ page.modalError = "Save failed"
    /\ page.editedItemPkValue # Null
    /\ DOMAIN PayloadOf(page.currentFormFields) # {}
    /\ page.fetches = <<>>

\* ------------------------------------------------------------------ the cache after a failure
\* getTableMetadata of request i calls back with an error
MetadataFails(i) == slots[i].pc \in {"catalog", "pragma"} /\ slots'[i].pc = "idle"
\* getTableMetadata of request i calls back with the metadata it introspected
MetadataIntrospected(i) == slots[i].pc = "pragma" /\ slots'[i].pc = "ready"
\* C30: a getTableMetadata call that fails adds no entry to the cache and changes none;
\* the cache changes only when an introspection succeeds, which adds the entry of its
\* table and drops none; whatever failed before, a request that finds no entry queries
\* the catalog again and, the table now existing, gets and caches its metadata.
C30_Step ==
    /\ \A i \in Slots : MetadataFails(i) => metadataCache' = metadataCache
    /\ metadataCache' # metadataCache => \E i \in Slots : MetadataIntrospected(i)
    /\ \A t \in DOMAIN metadataCache : t \in DOMAIN metadataCache'
    /\ \A i \in Slots :
          /\ (~Cached /\ slots[i].pc = "idle" /\ slots'[i].pc # "idle") => slots'[i].pc = "catalog"
          /\ (slots[i].pc = "catalog" /\ tableInfo # <<>> /\ slots'[i] # slots[i]) =>
                 \/ slots'[i].pc = "pragma"
                 \/ MetadataFails(i) /\ last'.msg = "engine"
          /\ MetadataIntrospected(i) =>
                 /\ tableInfo # <<>>
                 /\ DOMAIN metadataCache' = DOMAIN metadataCache \cup {Table}
                 /\ metadataCache'[Table] = MetaOf(tableInfo)
                 /\ slots'[i].meta = metadataCache'[Table]
C30_FailureLeavesCache == [][C30_Step]_vars
\* a request for the table was refused because the table did not exist, and nothing was
\* cached
C30_Witness ==
    /\ last.status = 400
    /\ last.msg = "Table not found"
    /\ tableInfo = <<>>
    /\ ~Cached
    /\ \A i \in Slots : slots[i].pc = "idle"

\* ------------------------------------------------------------------ handlers of the page overlapping
\* The browser lets a second handler start its fetch while the first still awaits its
\* own, and the responses come back in either order.
InitOverlapping ==
    /\ metadataCache = [t \in {} |-> NoMeta]
    /\ slots = [i \in 1..MaxReq |-> Idle]
    /\ last = NoResponse
    /\ pre = NoPre
    /\ arrived = <<>>
    /\ routed = NoRouted
    /\ page = [NoPage EXCEPT !.cap = MaxReq + 1]
    /\ tableInfo \in {ProductsInfo, NoKeyInfo}
    /\ rows = KeyedRows(tableInfo, [j \in 1..(MaxRowid - 1) |-> j])
    /\ autoinc = IF RowidAlias(tableInfo) # NoPk THEN MaxRowid - 1 ELSE 0
    /\ others = [rows |-> KeyedRows(OrdersInfo, <<MaxRowid>>), autoinc |-> MaxRowid]
    /\ call = NoCall

\* the add and edit controls and the modal, nothing submitted
NextModes ==
    \/ LoadPage
    \/ \E k \in 1..(MaxReq + 1) : RowsAnswered(k)
    \/ AddNew
    \/ \E rowIndex \in 0..MaxRowid : PrepareEditForm(rowIndex)
    \/ \E k \in 1..(MaxReq + 1) : MetaAnswered(k)
    \/ HideModal

SpecModes == InitOverlapping /\ [][NextModes]_vars

\* the controls that fetch rows
NextLists ==
    \/ LoadPage
    \/ Refresh
    \/ DisplayFilteredItems
    \/ \E k \in 1..(MaxReq + 1) : RowsAnswered(k)

SpecLists == InitOverlapping /\ [][NextLists]_vars

\* C28: in every state where no handler of the page is suspended at an await, a form
\* the modal shows that was built blank by the add-new handler has no edit target, and
\* one built pre-filled by prepareEditForm for row r has r's primary-key value as edit
\* target.
C28_ModeConsistent ==
    (page.modal /\ page.fetches = <<>> /\ page.built.by # "") =>
        IF page.built.by = "add" THEN page.editedItemPkValue = Null
        ELSE page.editedItemPkValue = page.built.key

\* C29: a response to a list or search request that arrives after the rows of a request
\* sent later were rendered does not replace those rows, and the current row array is
\* always the rows rendered last.
C29_Step ==
    /\ page'.currentRows = page'.shown
    /\ \A k \in 1..(MaxReq + 1) :
          (RowsAnswered(k) /\ page.fetches[k].late) =>
              /\ page'.currentRows = page.currentRows
              /\ page'.shown = page.shown
              /\ page'.shownOp = page.shownOp
C29_LateResponseDropped == [][C29_Step]_vars

====
